---- MODULE Spec2Model ----
(***************************************************************************)
(* State-machine model of the solana-veil program                          *)
(* (src/contracts/programs/solana-veil/src).                               *)
(*                                                                         *)
(* Every instruction is one action.  An instruction is executed as the     *)
(* ordered list of its steps (account validation first, then the handler   *)
(* body, in source order) over a staged copy of the program state; the     *)
(* first failing step aborts the call.  The host commits the staged state  *)
(* only when the call returns Ok and discards it otherwise.  The steps     *)
(* completed by the last call are kept in last.done, its error code in     *)
(* last.err.                                                               *)
(***************************************************************************)
EXTENDS Integers, Sequences, FiniteSets, TLC

\* ---------------------------------------------------------------- bounds
\* number of distinct nullifier hashes submitted
NumHashes == 2
\* number of distinct commitments submitted
NumCommitments == 2
\* number of denominations the depositor can initially afford
UserDeposits == 2
\* largest value of the (scaled) u64 amount type
U64_MAX == 1000000
\* number of distinct inbound message hashes
NumVaas == 2
\* number of recent roots a retention window holds
RootWindow == 2

\* ------------------------------------------------------------- constants
\* default max fee (basis points) of a new pool
DEFAULT_MAX_FEE_BP == 200
\* upper limit of the configurable max fee (basis points)
MAX_FEE_BP_LIMIT == 500
\* fee computations divide by this
BP_DENOMINATOR == 10000
\* accepted tree depths of initialize_pool
MIN_TREE_DEPTH == 10
MAX_TREE_DEPTH == 30
\* capacities of the bridge configuration arrays
MAX_SUPPORTED_CHAINS == 10
MAX_SUPPORTED_TOKENS == 20
\* payload id of a commitment transfer message
PAYLOAD_ID == 100
\* Wormhole chain id of Solana
CHAIN_ID_SOLANA == 1

NullifierHashes == 1..NumHashes
Commitments == 1..NumCommitments

\* Pubkey::default(), the mint of a native pool
NativeMint == "SOL"
\* no account supplied for an Option<..> account
NoAccount == "none"
\* the initial root [0; 32]
ZeroRoot == 0
\* a 32-byte value that never was a root of any tree
BogusRoot == -1

\* Option<T>: None is <<>>, Some(v) is <<v>>
None == <<>>
Some(v) == <<v>>

Put(f, k, v) == [x \in (DOMAIN f) \cup {k} |-> IF x = k THEN v ELSE f[x]]

RECURSIVE Pow2(_)
Pow2(n) == IF n = 0 THEN 1 ELSE 2 * Pow2(n - 1)

\* position of step s in the sequence done (0 when absent)
RECURSIVE PosFrom(_, _, _)
PosFrom(done, s, i) ==
    IF i > Len(done) THEN 0
    ELSE IF done[i] = s THEN i
    ELSE PosFrom(done, s, i + 1)

Pos(done, s) == PosFrom(done, s, 1)

Did(done, s) == Pos(done, s) > 0

VARIABLES
    pools,          \* pool key <<denomination, mint>> -> Pool account
    trees,          \* pool key -> MerkleTree account
    nullifiers,     \* <<pool key, nullifier hash>> -> Nullifier account
    nullifier_set,  \* the hashes held by the NullifierSet account of the bridge
    relayers,       \* relayer authority -> Relayer account
    vault,          \* pool key -> balance held by the pool (lamports or token vault)
    wallet,         \* <<owner, mint>> -> balance
    bridge_config,      \* None, or Some(BridgeConfig account)
    external_emitters,  \* <<chain id, emitter address>> -> ExternalBridgeEmitter account
    processed_vaas,     \* VAA hash -> ProcessedVaa account
    bridge_transfers,   \* <<destination chain id, nonce>> -> BridgeTransfer account
    bridge_vault,       \* mint -> balance of the bridge vault token account
    wormhole_sequence,  \* next sequence number of the program's Wormhole emitter
    root_history,   \* pool key -> the roots the tree account has held, oldest first
    deposit_log,    \* pool key -> leaf indices of the DepositEvents emitted, in order
    inbound_log,    \* the IncomingTransferProcessedEvents emitted, in order
    last            \* outcome of the last call

vars == <<pools, trees, nullifiers, nullifier_set, relayers, vault, wallet, bridge_config,
          external_emitters, processed_vaas, bridge_transfers, bridge_vault,
          wormhole_sequence, root_history, deposit_log, inbound_log, last>>

\* the program state a call works on
Staged ==
    [ err |-> "Ok", done |-> <<>>,
      out |-> [leaf_index |-> -1, amount |-> 0, payload |-> <<>>],
      pools |-> pools, trees |-> trees, nullifiers |-> nullifiers,
      nullifier_set |-> nullifier_set,
      relayers |-> relayers, vault |-> vault, wallet |-> wallet,
      bridge_config |-> bridge_config, external_emitters |-> external_emitters,
      processed_vaas |-> processed_vaas, bridge_transfers |-> bridge_transfers,
      bridge_vault |-> bridge_vault, wormhole_sequence |-> wormhole_sequence ]

Fail(st, code) == [st EXCEPT !.err = code]

Pass(st, step) == [st EXCEPT !.done = Append(@, step)]

\* checked_add on u64
CheckedAddOk(a, b) == a + b <= U64_MAX

\* a host that keeps the writes of a failed call
CommittedAlways(st) == TRUE

\* host atomicity: the staged state is committed only when the call returned Ok
Committed(st) == st.err = "Ok"

Commit(op, a, st) ==
    /\ pools' = IF Committed(st) THEN st.pools ELSE pools
    /\ trees' = IF Committed(st) THEN st.trees ELSE trees
    /\ nullifiers' = IF Committed(st) THEN st.nullifiers ELSE nullifiers
    /\ nullifier_set' = IF Committed(st) THEN st.nullifier_set ELSE nullifier_set
    /\ relayers' = IF Committed(st) THEN st.relayers ELSE relayers
    /\ vault' = IF Committed(st) THEN st.vault ELSE vault
    /\ wallet' = IF Committed(st) THEN st.wallet ELSE wallet
    /\ bridge_config' = IF Committed(st) THEN st.bridge_config ELSE bridge_config
    /\ external_emitters' =
         IF Committed(st) THEN st.external_emitters ELSE external_emitters
    /\ processed_vaas' = IF Committed(st) THEN st.processed_vaas ELSE processed_vaas
    /\ bridge_transfers' = IF Committed(st) THEN st.bridge_transfers ELSE bridge_transfers
    /\ bridge_vault' = IF Committed(st) THEN st.bridge_vault ELSE bridge_vault
    /\ wormhole_sequence' =
         IF Committed(st) THEN st.wormhole_sequence ELSE wormhole_sequence
    /\ root_history' =
         IF Committed(st)
         THEN [p \in DOMAIN st.trees |->
                 IF p \notin DOMAIN root_history THEN <<st.trees[p].root>>
                 ELSE IF st.trees[p].root = trees[p].root THEN root_history[p]
                 ELSE Append(root_history[p], st.trees[p].root)]
         ELSE root_history
    /\ deposit_log' =
         IF Committed(st)
         THEN [p \in DOMAIN st.pools |->
                 LET old == IF p \in DOMAIN deposit_log THEN deposit_log[p] ELSE <<>>
                 IN IF op = "deposit" /\ a.pool = p THEN Append(old, st.out.leaf_index)
                    ELSE old]
         ELSE deposit_log
    /\ inbound_log' =
         IF Committed(st) /\ op = "process_incoming_transfer"
         THEN Append(inbound_log, [vaa_hash |-> a.vaa_hash, tree |-> a.merkle_tree,
                                   leaf_index |-> st.out.leaf_index])
         ELSE inbound_log
    /\ last' = [op |-> op, args |-> a, err |-> st.err, done |-> st.done, out |-> st.out]

\* ------------------------------------------------------- initialize_pool
PoolKey(denomination, is_spl_token, mint) ==
    <<denomination, IF is_spl_token THEN mint ELSE NativeMint>>

\* initialize_pool on accounts that are not `init`
InitializePoolStepsNoInit ==
    <<"check_denomination", "check_depth", "write_pool", "write_tree">>

\* initialize_pool without the check of the denomination
InitializePoolStepsNoDenominationCheck ==
    <<"init_pool", "init_tree", "check_depth", "write_pool", "write_tree">>

InitializePoolSteps ==
    <<"init_pool", "init_tree", "check_denomination", "check_depth", "write_pool", "write_tree">>

InitializePoolStep(step, st, a) ==
    LET p == PoolKey(a.denomination, a.is_spl_token, a.mint) IN
    CASE step = "init_pool" ->
           IF p \in DOMAIN st.pools THEN Fail(st, "AccountAlreadyInUse")
           ELSE Pass(st, step)
      [] step = "init_tree" ->
           IF p \in DOMAIN st.trees THEN Fail(st, "AccountAlreadyInUse")
           ELSE Pass(st, step)
      [] step = "check_denomination" ->
           IF a.denomination = 0 THEN Fail(st, "InvalidDenomination")
           ELSE Pass(st, step)
      [] step = "check_depth" ->
           IF a.max_depth < MIN_TREE_DEPTH \/ a.max_depth > MAX_TREE_DEPTH
           THEN Fail(st, "InvalidTreeDepth")
           ELSE Pass(st, step)
      [] step = "write_pool" ->
           Pass([st EXCEPT
                   !.pools = Put(@, p,
                     [ authority |-> a.authority,
                       denomination |-> a.denomination,
                       merkle_root |-> ZeroRoot,
                       next_index |-> 0,
                       max_depth |-> a.max_depth,
                       tree |-> p,
                       is_spl_token |-> a.is_spl_token,
                       max_fee_basis_points |-> DEFAULT_MAX_FEE_BP,
                       min_withdrawal_amount |-> a.denomination \div 10,
                       is_active |-> TRUE,
                       total_deposited |-> 0,
                       total_withdrawn |-> 0 ]),
                   !.vault = Put(@, p, 0)], step)
      [] step = "write_tree" ->
           Pass([st EXCEPT
                   !.trees = Put(@, p,
                     [ authority |-> a.authority,
                       max_depth |-> a.max_depth,
                       num_leaves |-> 0,
                       root |-> ZeroRoot,
                       pool |-> p ])], step)

RECURSIVE RunInitializePool(_, _, _)
RunInitializePool(steps, st, a) ==
    IF steps = <<>> \/ st.err # "Ok" THEN st
    ELSE RunInitializePool(Tail(steps), InitializePoolStep(Head(steps), st, a), a)

InitializePool(authority, denomination, max_depth, is_spl_token, mint) ==
    LET a == [authority |-> authority, denomination |-> denomination,
              max_depth |-> max_depth, is_spl_token |-> is_spl_token, mint |-> mint]
    IN Commit("initialize_pool", a, RunInitializePool(InitializePoolSteps, Staged, a))

\* ---------------------------------------------------- update_pool_config
\* update_pool_config without the comparison of the signer with the authority
UpdatePoolConfigStepsNoAuthorityCheck == <<"max_fee", "min_withdrawal", "active">>

UpdatePoolConfigSteps ==
    <<"check_authority", "max_fee", "min_withdrawal", "active">>

UpdatePoolConfigStep(step, st, a) ==
    LET pool == st.pools[a.pool] IN
    CASE step = "check_authority" ->
           IF pool.authority # a.signer THEN Fail(st, "Unauthorized")
           ELSE Pass(st, step)
      [] step = "max_fee" ->
           IF a.max_fee_basis_points = None THEN st
           ELSE IF a.max_fee_basis_points[1] > MAX_FEE_BP_LIMIT THEN Fail(st, "FeeTooHigh")
           ELSE Pass([st EXCEPT !.pools[a.pool].max_fee_basis_points =
                                    a.max_fee_basis_points[1]], step)
      [] step = "min_withdrawal" ->
           IF a.min_withdrawal_amount = None THEN st
           ELSE IF a.min_withdrawal_amount[1] > pool.denomination
                THEN Fail(st, "InvalidDenomination")
           ELSE Pass([st EXCEPT !.pools[a.pool].min_withdrawal_amount =
                                    a.min_withdrawal_amount[1]], step)
      [] step = "active" ->
           IF a.is_active = None THEN st
           ELSE Pass([st EXCEPT !.pools[a.pool].is_active = a.is_active[1]], step)

RECURSIVE RunUpdatePoolConfig(_, _, _)
RunUpdatePoolConfig(steps, st, a) ==
    IF steps = <<>> \/ st.err # "Ok" THEN st
    ELSE RunUpdatePoolConfig(Tail(steps), UpdatePoolConfigStep(Head(steps), st, a), a)

UpdatePoolConfig(p, signer, max_fee_basis_points, min_withdrawal_amount, is_active) ==
    /\ p \in DOMAIN pools
    /\ LET a == [pool |-> p, signer |-> signer,
                 max_fee_basis_points |-> max_fee_basis_points,
                 min_withdrawal_amount |-> min_withdrawal_amount,
                 is_active |-> is_active]
       IN Commit("update_pool_config", a,
                 RunUpdatePoolConfig(UpdatePoolConfigSteps, Staged, a))

\* ------------------------------------------------------- update_tree_root
\* The accounts struct names the pool by the seeds "pool", denomination, which are
\* the seeds of a native pool, and requires has_one = authority; the handler assigns
\* pool.merkle_root.
UpdateTreeRootSteps == <<"has_one_authority", "constraint_seeds", "write_root", "emit">>

UpdateTreeRootStep(step, st, a) ==
    LET pool == st.pools[a.pool] IN
    CASE step = "has_one_authority" ->
           IF pool.authority # a.signer THEN Fail(st, "Unauthorized") ELSE Pass(st, step)
      [] step = "constraint_seeds" ->
           IF a.pool # PoolKey(pool.denomination, FALSE, NativeMint)
           THEN Fail(st, "ConstraintSeeds")
           ELSE Pass(st, step)
      [] step = "write_root" ->
           Pass([st EXCEPT !.pools[a.pool].merkle_root = a.new_root], step)
      [] step = "emit" -> Pass(st, step)

RECURSIVE RunUpdateTreeRoot(_, _, _)
RunUpdateTreeRoot(steps, st, a) ==
    IF steps = <<>> \/ st.err # "Ok" THEN st
    ELSE RunUpdateTreeRoot(Tail(steps), UpdateTreeRootStep(Head(steps), st, a), a)

UpdateTreeRoot(p, signer, new_root) ==
    /\ p \in DOMAIN pools
    /\ LET a == [pool |-> p, signer |-> signer, new_root |-> new_root]
       IN Commit("update_tree_root", a, RunUpdateTreeRoot(UpdateTreeRootSteps, Staged, a))

\* ------------------------------------------------------------ set_relayer
SetRelayerSteps == <<"check_fee", "write_relayer">>

SetRelayerStep(step, st, a) ==
    CASE step = "check_fee" ->
           IF a.fee_basis_points > MAX_FEE_BP_LIMIT THEN Fail(st, "FeeTooHigh")
           ELSE Pass(st, step)
      [] step = "write_relayer" ->
           LET old == IF a.authority \in DOMAIN st.relayers
                      THEN st.relayers[a.authority]
                      ELSE [total_relayed |-> 0, total_fees |-> 0]
           IN Pass([st EXCEPT !.relayers = Put(@, a.authority,
                      [ authority |-> a.authority,
                        is_active |-> a.is_active,
                        fee_basis_points |-> a.fee_basis_points,
                        total_relayed |-> old.total_relayed,
                        total_fees |-> old.total_fees ])], step)

RECURSIVE RunSetRelayer(_, _, _)
RunSetRelayer(steps, st, a) ==
    IF steps = <<>> \/ st.err # "Ok" THEN st
    ELSE RunSetRelayer(Tail(steps), SetRelayerStep(Head(steps), st, a), a)

SetRelayer(authority, is_active, fee_basis_points) ==
    LET a == [authority |-> authority, is_active |-> is_active,
              fee_basis_points |-> fee_basis_points]
    IN Commit("set_relayer", a, RunSetRelayer(SetRelayerSteps, Staged, a))

\* ---------------------------------------------------------------- deposit
\* deposit reading the leaf index after it incremented next_index
DepositStepsIndexAfterIncrement ==
    <<"constraint_tree", "check_active", "check_funds", "transfer_in", "total_deposited",
      "next_index", "leaf_index", "num_leaves", "emit">>

\* deposit without the check that the pool is active
DepositStepsNoActiveCheck ==
    <<"constraint_tree", "check_funds", "transfer_in", "total_deposited",
      "leaf_index", "next_index", "num_leaves", "emit">>

DepositSteps ==
    <<"constraint_tree", "check_active", "check_funds", "transfer_in", "total_deposited",
      "leaf_index", "next_index", "num_leaves", "emit">>

\* a deposit of half the denomination
DepositDenominationHalf(pool) == pool.denomination \div 2

\* the amount a deposit moves: the denomination of the pool
DepositDenomination(pool) == pool.denomination

DepositStep(step, st, a) ==
    LET p == a.pool
        pool == st.pools[p]
        from == <<a.user, p[2]>>
        denomination == DepositDenomination(pool)
    IN
    CASE step = "constraint_tree" ->
           IF a.tree # pool.tree \/ st.trees[a.tree].pool # p
           THEN Fail(st, "InvalidMerkleTree")
           ELSE Pass(st, step)
      [] step = "check_active" ->
           IF ~pool.is_active THEN Fail(st, "PoolInactive") ELSE Pass(st, step)
      [] step = "check_funds" ->
           IF st.wallet[from] < denomination THEN Fail(st, "InsufficientFunds")
           ELSE Pass(st, step)
      [] step = "transfer_in" ->
           Pass([st EXCEPT !.wallet[from] = @ - denomination,
                           !.vault[p] = @ + denomination], step)
      [] step = "total_deposited" ->
           IF ~CheckedAddOk(pool.total_deposited, denomination)
           THEN Fail(st, "CalculationError")
           ELSE Pass([st EXCEPT !.pools[p].total_deposited = @ + denomination], step)
      [] step = "leaf_index" ->
           Pass([st EXCEPT !.out.leaf_index = pool.next_index], step)
      [] step = "next_index" ->
           IF ~CheckedAddOk(pool.next_index, 1) THEN Fail(st, "CalculationError")
           ELSE Pass([st EXCEPT !.pools[p].next_index = @ + 1], step)
      [] step = "num_leaves" ->
           IF ~CheckedAddOk(st.trees[a.tree].num_leaves, 1) THEN Fail(st, "CalculationError")
           ELSE Pass([st EXCEPT !.trees[a.tree].num_leaves = @ + 1], step)
      [] step = "emit" ->
           Pass([st EXCEPT !.out.amount = denomination], step)

RECURSIVE RunDeposit(_, _, _)
RunDeposit(steps, st, a) ==
    IF steps = <<>> \/ st.err # "Ok" THEN st
    ELSE RunDeposit(Tail(steps), DepositStep(Head(steps), st, a), a)

Deposit(p, t, user, commitment) ==
    /\ p \in DOMAIN pools
    /\ t \in DOMAIN trees
    /\ LET a == [pool |-> p, tree |-> t, user |-> user, commitment |-> commitment]
       IN Commit("deposit", a, RunDeposit(DepositSteps, Staged, a))

\* ------------------------------------------------------------ ProofGate
\* A proof blob is either undecodable or a Groth16 proof of one statement (the
\* public-input vector it was generated for); a verifying key is decodable or not.
\* verify_bridge_proof: deserialize the key, deserialize the proof, run the pairing
\* check against the public inputs; every failure is InvalidProof.
VerifyBridgeProof(proof_data, vk_data, public_inputs) ==
    IF ~vk_data.deser THEN "InvalidProof"
    ELSE IF ~proof_data.deser THEN "InvalidProof"
    ELSE IF proof_data.statement # public_inputs THEN "InvalidProof"
    ELSE "Ok"

\* the public-input layout of a withdrawal
WithdrawPublicInputs(a) == <<a.root, a.nullifier_hash, a.recipient, a.relayer, a.fee>>

\* the pool's verifying key
PoolVerifyingKey == [deser |-> TRUE]

\* --------------------------------------------------------------- withdraw
\* Account validation (the Withdraw accounts struct: the init account first, then
\* the constraints in field order), then the handler body in source order.
\* withdraw paying out before it marks the nullifier spent
WithdrawStepsPayFirst ==
    <<"init_nullifier", "constraint_pool_active", "constraint_tree",
      "constraint_relayer", "constraint_relayer_stats",
      "check_active", "check_root", "check_nullifier", "check_fee_denomination",
      "check_max_fee", "withdraw_amount", "check_min_amount", "log_proof",
      "transfer_recipient", "transfer_relayer", "mark_spent", "relayer_stats", "emit">>

\* withdraw checking the minimum net amount before the fee cap
WithdrawStepsMinBeforeCap ==
    <<"init_nullifier", "constraint_pool_active", "constraint_tree",
      "constraint_relayer", "constraint_relayer_stats",
      "check_active", "check_root", "check_nullifier", "check_fee_denomination",
      "withdraw_amount", "check_min_amount", "check_max_fee", "log_proof",
      "mark_spent", "transfer_recipient", "transfer_relayer", "relayer_stats", "emit">>

\* withdraw checking the fee before the root
WithdrawStepsFeeBeforeRoot ==
    <<"init_nullifier", "constraint_pool_active", "constraint_tree",
      "constraint_relayer", "constraint_relayer_stats",
      "check_active", "check_nullifier", "check_fee_denomination", "check_max_fee",
      "check_root", "withdraw_amount", "check_min_amount", "log_proof",
      "mark_spent", "transfer_recipient", "transfer_relayer", "relayer_stats", "emit">>

\* withdraw that never marks the nullifier account as spent
WithdrawStepsNoMarkSpent ==
    <<"init_nullifier", "constraint_pool_active", "constraint_tree",
      "constraint_relayer", "constraint_relayer_stats",
      "check_active", "check_root", "check_nullifier", "check_fee_denomination",
      "check_max_fee", "withdraw_amount", "check_min_amount", "log_proof",
      "transfer_recipient", "transfer_relayer", "relayer_stats", "emit">>

\* withdraw that keeps the relayer's fee in the vault
WithdrawStepsNoRelayerTransfer ==
    <<"init_nullifier", "constraint_pool_active", "constraint_tree",
      "constraint_relayer", "constraint_relayer_stats",
      "check_active", "check_root", "check_nullifier", "check_fee_denomination",
      "check_max_fee", "withdraw_amount", "check_min_amount", "log_proof",
      "mark_spent", "transfer_recipient", "relayer_stats", "emit">>

WithdrawSteps ==
    <<"init_nullifier", "constraint_pool_active", "constraint_tree",
      "constraint_relayer", "constraint_relayer_stats",
      "check_active", "check_root", "check_nullifier", "check_fee_denomination",
      "check_max_fee", "withdraw_amount", "check_min_amount", "log_proof",
      "mark_spent", "transfer_recipient", "transfer_relayer", "relayer_stats", "emit">>

\* max_fee = denomination * max_fee_basis_points / 10000
\* a fee cap computed on the round-up of the basis-point product
MaxFeeRoundedUp(pool) ==
    (pool.denomination * pool.max_fee_basis_points + BP_DENOMINATOR - 1) \div BP_DENOMINATOR

MaxFee(pool) == (pool.denomination * pool.max_fee_basis_points) \div BP_DENOMINATOR

\* a nullifier account derived from the hash alone, shared by all pools
NullifierKeyGlobal(p, nullifier_hash) == <<<<0, NoAccount>>, nullifier_hash>>

\* the nullifier account of a withdrawal: seeds "nullifier", nullifier_hash, pool key
NullifierKey(p, nullifier_hash) == <<p, nullifier_hash>>

WithdrawStep(step, st, a) ==
    LET p == a.pool
        pool == st.pools[p]
        key == NullifierKey(p, a.nullifier_hash)
        pays_relayer == a.fee > 0 /\ a.relayer # NoAccount
    IN
    CASE step = "init_nullifier" ->
           IF key \in DOMAIN st.nullifiers THEN Fail(st, "AccountAlreadyInUse")
           ELSE Pass([st EXCEPT !.nullifiers = Put(@, key,
                        [ is_spent |-> FALSE, nullifier_hash |-> 0,
                          pool |-> <<0, NoAccount>>, recipient |-> NoAccount ])], step)
      [] step = "constraint_pool_active" ->
           IF ~pool.is_active THEN Fail(st, "PoolInactive") ELSE Pass(st, step)
      [] step = "constraint_tree" ->
           IF a.tree # pool.tree \/ st.trees[a.tree].pool # p
           THEN Fail(st, "InvalidMerkleTree")
           ELSE Pass(st, step)
      [] step = "constraint_relayer" ->
           IF ~(a.fee = 0 \/ a.relayer # NoAccount) THEN Fail(st, "InvalidFeeAmount")
           ELSE Pass(st, step)
      [] step = "constraint_relayer_stats" ->
           IF ~((a.relayer # NoAccount /\ a.relayer_stats # NoAccount)
                \/ a.relayer = NoAccount)
           THEN Fail(st, "InvalidRelayer")
           ELSE Pass(st, step)
      [] step = "check_active" ->
           IF ~pool.is_active THEN Fail(st, "PoolInactive") ELSE Pass(st, step)
      [] step = "check_root" ->
           IF a.root # st.trees[a.tree].root THEN Fail(st, "InvalidMerkleRoot")
           ELSE Pass(st, step)
      [] step = "check_nullifier" ->
           IF st.nullifiers[key].is_spent THEN Fail(st, "NullifierAlreadySpent")
           ELSE Pass(st, step)
      [] step = "check_fee_denomination" ->
           IF a.fee > pool.denomination THEN Fail(st, "InvalidFeeAmount")
           ELSE Pass(st, step)
      [] step = "check_max_fee" ->
           IF a.fee > MaxFee(pool) THEN Fail(st, "FeeTooHigh") ELSE Pass(st, step)
      [] step = "withdraw_amount" ->
           IF pool.denomination < a.fee THEN Fail(st, "CalculationError")
           ELSE Pass([st EXCEPT !.out.amount = pool.denomination - a.fee], step)
      [] step = "check_min_amount" ->
           IF st.out.amount < pool.min_withdrawal_amount
           THEN Fail(st, "WithdrawalAmountTooLow")
           ELSE Pass(st, step)
      [] step = "log_proof" ->
           Pass(st, step)
      [] step = "mark_spent" ->
           Pass([st EXCEPT !.nullifiers[key] =
                   [ is_spent |-> TRUE, nullifier_hash |-> a.nullifier_hash,
                     pool |-> p, recipient |-> a.recipient ]], step)
      [] step = "transfer_recipient" ->
           IF st.vault[p] < st.out.amount THEN Fail(st, "TransferFailed")
           ELSE Pass([st EXCEPT !.vault[p] = @ - st.out.amount,
                                !.wallet[<<a.recipient, p[2]>>] = @ + st.out.amount], step)
      [] step = "transfer_relayer" ->
           IF ~pays_relayer THEN st
           ELSE IF st.vault[p] < a.fee THEN Fail(st, "TransferFailed")
           ELSE Pass([st EXCEPT !.vault[p] = @ - a.fee,
                                !.wallet[<<a.relayer, p[2]>>] = @ + a.fee], step)
      [] step = "relayer_stats" ->
           IF ~(pays_relayer /\ a.relayer_stats # NoAccount) THEN st
           ELSE IF ~CheckedAddOk(st.relayers[a.relayer_stats].total_relayed, st.out.amount)
                THEN Fail(st, "CalculationError")
           ELSE IF ~CheckedAddOk(st.relayers[a.relayer_stats].total_fees, a.fee)
                THEN Fail(st, "CalculationError")
           ELSE Pass([st EXCEPT
                        !.relayers[a.relayer_stats].total_relayed = @ + st.out.amount,
                        !.relayers[a.relayer_stats].total_fees = @ + a.fee], step)
      [] step = "emit" ->
           Pass(st, step)

RECURSIVE RunWithdraw(_, _, _)
RunWithdraw(steps, st, a) ==
    IF steps = <<>> \/ st.err # "Ok" THEN st
    ELSE RunWithdraw(Tail(steps), WithdrawStep(Head(steps), st, a), a)

Withdraw(p, t, proof_data, root, nullifier_hash, recipient, fee, relayer, relayer_stats) ==
    /\ p \in DOMAIN pools
    /\ t \in DOMAIN trees
    /\ relayer_stats \in (DOMAIN relayers) \cup {NoAccount}
    /\ LET a == [pool |-> p, tree |-> t, proof_data |-> proof_data, root |-> root,
                 nullifier_hash |-> nullifier_hash, recipient |-> recipient,
                 fee |-> fee, relayer |-> relayer, relayer_stats |-> relayer_stats]
       IN Commit("withdraw", a, RunWithdraw(WithdrawSteps, Staged, a))


\* ----------------------------------------------------------------- bytes
\* n.to_le_bytes() on w bytes
RECURSIVE ToLeBytes(_, _)
ToLeBytes(n, w) == IF w = 0 THEN <<>> ELSE <<n % 256>> \o ToLeBytes(n \div 256, w - 1)

\* n.to_be_bytes() on w bytes
RECURSIVE ToBeBytes(_, _)
ToBeBytes(n, w) == IF w = 0 THEN <<>> ELSE Append(ToBeBytes(n \div 256, w - 1), n % 256)

\* uN::from_be_bytes(bytes)
RECURSIVE FromBeBytes(_)
FromBeBytes(bytes) ==
    IF bytes = <<>> THEN 0
    ELSE 256 * FromBeBytes(SubSeq(bytes, 1, Len(bytes) - 1)) + bytes[Len(bytes)]

\* payload[lo..hi] of a zero-based byte vector
Slice(payload, lo, hi) == SubSeq(payload, lo + 1, hi)

\* the 32 bytes of a public key; keys are named, their bytes are those of a number
PubkeyNumber(key) ==
    CASE key = "SOL" -> 0
      [] key = "USDC" -> 7
      [] OTHER -> 9

PubkeyBytes(key) == ToBeBytes(PubkeyNumber(key), 32)

\* ------------------------------------------------------------ Accumulator
\* the root after appending leaf to a tree with root `root`: a collision-free
\* stand-in for the recomputed Merkle root
HashRoot(root, leaf) == root * (NumCommitments + 1) + leaf

\* tree::add_leaf(merkle_tree, leaf)
AddLeaf(st, t, leaf, step) ==
    LET tree == st.trees[t] IN
    IF tree.num_leaves = Pow2(tree.max_depth) THEN Fail(st, "MerkleTreeFull")
    ELSE Pass([st EXCEPT !.out.leaf_index = tree.num_leaves,
                         !.trees[t].num_leaves = @ + 1,
                         !.trees[t].root = HashRoot(@, leaf)], step)

\* ------------------------------------------------------ initialize_bridge
ChainConfigDefault == [chain_id |-> 0, token_count |-> 0, tokens |-> <<>>]

TokenConfigDefault ==
    [mint |-> NativeMint, dest_token_id |-> 0, min_amount |-> 0, max_amount |-> 0,
     enabled |-> FALSE]

\* supported_chains[i - 1]; the slots behind the used prefix hold the default value
ChainSlot(config, i) ==
    IF i <= Len(config.supported_chains) THEN config.supported_chains[i]
    ELSE ChainConfigDefault

\* chain.tokens[i - 1]
TokenSlot(chain, i) == IF i <= Len(chain.tokens) THEN chain.tokens[i] ELSE TokenConfigDefault

InitializeBridgeSteps == <<"init_bridge_config", "write_bridge_config", "emit">>

InitializeBridgeStep(step, st, a) ==
    CASE step = "init_bridge_config" ->
           IF st.bridge_config # None THEN Fail(st, "AccountAlreadyInUse")
           ELSE Pass(st, step)
      [] step = "write_bridge_config" ->
           Pass([st EXCEPT !.bridge_config = Some(
                   [ authority |-> a.authority,
                     treasury |-> a.treasury,
                     fee_basis_points |-> a.fee_basis_points,
                     paused |-> FALSE,
                     chain_count |-> 0,
                     supported_chains |-> <<>>,
                     wormhole_finality |-> a.wormhole_finality ])], step)
      [] step = "emit" -> Pass(st, step)

RECURSIVE RunInitializeBridge(_, _, _)
RunInitializeBridge(steps, st, a) ==
    IF steps = <<>> \/ st.err # "Ok" THEN st
    ELSE RunInitializeBridge(Tail(steps), InitializeBridgeStep(Head(steps), st, a), a)

InitializeBridge(authority, treasury, fee_basis_points, wormhole_finality) ==
    LET a == [authority |-> authority, treasury |-> treasury,
              fee_basis_points |-> fee_basis_points,
              wormhole_finality |-> wormhole_finality]
    IN Commit("initialize_bridge", a,
              RunInitializeBridge(InitializeBridgeSteps, Staged, a))

\* --------------------------------------------------- update_bridge_config
UpdateBridgeConfigSteps ==
    <<"account_bridge_config", "has_one_authority", "fee", "finality", "paused",
      "treasury", "emit">>

UpdateBridgeConfigStep(step, st, a) ==
    CASE step = "account_bridge_config" ->
           IF st.bridge_config = None THEN Fail(st, "AccountNotInitialized")
           ELSE Pass(st, step)
      [] step = "has_one_authority" ->
           IF st.bridge_config[1].authority # a.signer THEN Fail(st, "ConstraintHasOne")
           ELSE Pass(st, step)
      [] step = "fee" ->
           IF a.new_fee_basis_points = None THEN st
           ELSE Pass([st EXCEPT !.bridge_config[1].fee_basis_points =
                                    a.new_fee_basis_points[1]], step)
      [] step = "finality" ->
           IF a.new_wormhole_finality = None THEN st
           ELSE Pass([st EXCEPT !.bridge_config[1].wormhole_finality =
                                    a.new_wormhole_finality[1]], step)
      [] step = "paused" ->
           IF a.new_paused_state = None THEN st
           ELSE Pass([st EXCEPT !.bridge_config[1].paused = a.new_paused_state[1]], step)
      [] step = "treasury" ->
           IF a.new_treasury = None THEN st
           ELSE Pass([st EXCEPT !.bridge_config[1].treasury = a.new_treasury[1]], step)
      [] step = "emit" -> Pass(st, step)

RECURSIVE RunUpdateBridgeConfig(_, _, _)
RunUpdateBridgeConfig(steps, st, a) ==
    IF steps = <<>> \/ st.err # "Ok" THEN st
    ELSE RunUpdateBridgeConfig(Tail(steps), UpdateBridgeConfigStep(Head(steps), st, a), a)

UpdateBridgeConfig(signer, new_fee_basis_points, new_wormhole_finality, new_paused_state, new_treasury) ==
    LET a == [signer |-> signer, new_fee_basis_points |-> new_fee_basis_points,
              new_wormhole_finality |-> new_wormhole_finality,
              new_paused_state |-> new_paused_state, new_treasury |-> new_treasury]
    IN Commit("update_bridge_config", a,
              RunUpdateBridgeConfig(UpdateBridgeConfigSteps, Staged, a))

\* ----------------------------------------------- register_external_emitter
RegisterExternalEmitterSteps ==
    <<"account_bridge_config", "init_external_emitter", "has_one_authority",
      "write_external_emitter", "emit">>

RegisterExternalEmitterStep(step, st, a) ==
    LET key == <<a.chain_id, a.emitter_address>> IN
    CASE step = "account_bridge_config" ->
           IF st.bridge_config = None THEN Fail(st, "AccountNotInitialized")
           ELSE Pass(st, step)
      [] step = "init_external_emitter" ->
           IF key \in DOMAIN st.external_emitters THEN Fail(st, "AccountAlreadyInUse")
           ELSE Pass(st, step)
      [] step = "has_one_authority" ->
           IF st.bridge_config[1].authority # a.signer THEN Fail(st, "ConstraintHasOne")
           ELSE Pass(st, step)
      [] step = "write_external_emitter" ->
           Pass([st EXCEPT !.external_emitters = Put(@, key,
                   [ chain_id |-> a.chain_id, emitter_address |-> a.emitter_address,
                     is_active |-> TRUE ])], step)
      [] step = "emit" -> Pass(st, step)

RECURSIVE RunRegisterExternalEmitter(_, _, _)
RunRegisterExternalEmitter(steps, st, a) ==
    IF steps = <<>> \/ st.err # "Ok" THEN st
    ELSE RunRegisterExternalEmitter(Tail(steps),
                                    RegisterExternalEmitterStep(Head(steps), st, a), a)

RegisterExternalEmitter(signer, chain_id, emitter_address) ==
    LET a == [signer |-> signer, chain_id |-> chain_id,
              emitter_address |-> emitter_address]
    IN Commit("register_external_emitter", a,
              RunRegisterExternalEmitter(RegisterExternalEmitterSteps, Staged, a))


\* -------------------------------------------------- BridgeRegistry updates
\* add_destination_chain and add_supported_token: their callers are in lib.rs, their
\* bodies are not in the sources; modelled from the specification (section 4.6).
HasChain(config, chain_id) ==
    \E i \in 1..Len(config.supported_chains) : config.supported_chains[i].chain_id = chain_id

ChainIndex(config, chain_id) ==
    CHOOSE i \in 1..Len(config.supported_chains) :
        config.supported_chains[i].chain_id = chain_id

AddDestinationChainSteps ==
    <<"account_bridge_config", "check_authority", "check_capacity", "check_duplicate",
      "write_chain">>

AddDestinationChainStep(step, st, a) ==
    CASE step = "account_bridge_config" ->
           IF st.bridge_config = None THEN Fail(st, "AccountNotInitialized")
           ELSE Pass(st, step)
      [] step = "check_authority" ->
           IF st.bridge_config[1].authority # a.signer THEN Fail(st, "ConstraintHasOne")
           ELSE Pass(st, step)
      [] step = "check_capacity" ->
           IF st.bridge_config[1].chain_count >= MAX_SUPPORTED_CHAINS
           THEN Fail(st, "TooManyChains")
           ELSE Pass(st, step)
      [] step = "check_duplicate" ->
           IF HasChain(st.bridge_config[1], a.chain_id)
           THEN Fail(st, "ChainAlreadySupported")
           ELSE Pass(st, step)
      [] step = "write_chain" ->
           Pass([st EXCEPT
                   !.bridge_config[1].supported_chains =
                       Append(@, [chain_id |-> a.chain_id, token_count |-> 0,
                                  tokens |-> <<>>]),
                   !.bridge_config[1].chain_count = @ + 1], step)

RECURSIVE RunAddDestinationChain(_, _, _)
RunAddDestinationChain(steps, st, a) ==
    IF steps = <<>> \/ st.err # "Ok" THEN st
    ELSE RunAddDestinationChain(Tail(steps), AddDestinationChainStep(Head(steps), st, a), a)

AddDestinationChain(signer, chain_id) ==
    LET a == [signer |-> signer, chain_id |-> chain_id]
    IN Commit("add_destination_chain", a,
              RunAddDestinationChain(AddDestinationChainSteps, Staged, a))

AddSupportedTokenSteps ==
    <<"account_bridge_config", "check_authority", "find_chain", "check_capacity",
      "check_duplicate", "write_token">>

AddSupportedTokenStep(step, st, a) ==
    LET config == st.bridge_config[1] IN
    CASE step = "account_bridge_config" ->
           IF st.bridge_config = None THEN Fail(st, "AccountNotInitialized")
           ELSE Pass(st, step)
      [] step = "check_authority" ->
           IF config.authority # a.signer THEN Fail(st, "ConstraintHasOne")
           ELSE Pass(st, step)
      [] step = "find_chain" ->
           IF ~HasChain(config, a.chain_id) THEN Fail(st, "ChainNotSupported")
           ELSE Pass(st, step)
      [] step = "check_capacity" ->
           IF config.supported_chains[ChainIndex(config, a.chain_id)].token_count
                >= MAX_SUPPORTED_TOKENS
           THEN Fail(st, "TooManyTokens")
           ELSE Pass(st, step)
      [] step = "check_duplicate" ->
           IF \E j \in 1..Len(config.supported_chains[ChainIndex(config, a.chain_id)].tokens) :
                config.supported_chains[ChainIndex(config, a.chain_id)].tokens[j].mint = a.mint
           THEN Fail(st, "TokenAlreadySupported")
           ELSE Pass(st, step)
      [] step = "write_token" ->
           LET i == ChainIndex(config, a.chain_id) IN
           Pass([st EXCEPT
                   !.bridge_config[1].supported_chains[i].tokens =
                       Append(@, [mint |-> a.mint, dest_token_id |-> a.dest_token_id,
                                  min_amount |-> a.min_amount,
                                  max_amount |-> a.max_amount, enabled |-> TRUE]),
                   !.bridge_config[1].supported_chains[i].token_count = @ + 1], step)

RECURSIVE RunAddSupportedToken(_, _, _)
RunAddSupportedToken(steps, st, a) ==
    IF steps = <<>> \/ st.err # "Ok" THEN st
    ELSE RunAddSupportedToken(Tail(steps), AddSupportedTokenStep(Head(steps), st, a), a)

AddSupportedToken(signer, chain_id, mint, dest_token_id, min_amount, max_amount) ==
    LET a == [signer |-> signer, chain_id |-> chain_id, mint |-> mint,
              dest_token_id |-> dest_token_id, min_amount |-> min_amount,
              max_amount |-> max_amount]
    IN Commit("add_supported_token", a,
              RunAddSupportedToken(AddSupportedTokenSteps, Staged, a))

\* ------------------------------------------ initiate_cross_chain_transfer
\* find_token_config: the first chain slot with the chain id, then its first token
\* slot with the mint, over all slots of the fixed-size arrays
FindChainSlots(config, chain_id) ==
    {i \in 1..MAX_SUPPORTED_CHAINS : ChainSlot(config, i).chain_id = chain_id}

Min(S) == CHOOSE x \in S : \A y \in S : x <= y

FindTokenSlots(chain, mint) ==
    {j \in 1..MAX_SUPPORTED_TOKENS : TokenSlot(chain, j).mint = mint}

\* amount * fee_basis_points / 10000 in 128 bits, where the product cannot overflow;
\* the quotient is taken in two parts to keep every intermediate value small
WideFee(amount, fee_basis_points) ==
    (amount \div BP_DENOMINATOR) * fee_basis_points
    + ((amount % BP_DENOMINATOR) * fee_basis_points) \div BP_DENOMINATOR

\* the fee of a bridge transfer: the 128-bit quotient cast `as u64`, which keeps its
\* low 64 bits
BridgeFee(amount, fee_basis_points) == WideFee(amount, fee_basis_points) % (U64_MAX + 1)

\* the amount range check of a transfer, a variant with strict bounds first
AmountInRangeStrict(amount, token) == amount > token.min_amount /\ amount < token.max_amount

AmountInRange(amount, token) == amount >= token.min_amount /\ amount <= token.max_amount

\* the owner of the token account the bridge keeps its funds in
VaultAuthority == "vault_authority"

\* amount is added to the token account of `owner` for `mint`
CreditTokens(st, owner, mint, amount) ==
    IF owner = VaultAuthority THEN [st EXCEPT !.bridge_vault[mint] = @ + amount]
    ELSE [st EXCEPT !.wallet[<<owner, mint>>] = @ + amount]

\* the status a BridgeTransfer record is written with, a variant first
InitialTransferStatusCompleted == "Completed"

InitialTransferStatus == "Pending"

\* the Wormhole message payload of a transfer
BuildPayload(transfer_amount, mint, destination_chain_id, destination_address, commitment, nonce) ==
    <<PAYLOAD_ID>>
      \o ToBeBytes(transfer_amount, 8)
      \o PubkeyBytes(mint)
      \o ToBeBytes(CHAIN_ID_SOLANA, 2)
      \o ToBeBytes(destination_chain_id, 2)
      \o ToBeBytes(destination_address, 32)
      \o ToBeBytes(commitment, 32)
      \o ToBeBytes(nonce, 4)

\* initiate_cross_chain_transfer without the paused check
InitiateCrossChainTransferStepsNoPauseCheck ==
    <<"account_bridge_config", "init_bridge_transfer", "account_mint",
      "find_chain", "find_token", "check_enabled", "check_amount", "transfer_amount",
      "transfer_to_vault", "transfer_fee", "build_payload", "post_message",
      "write_bridge_transfer", "add_leaf", "emit">>

InitiateCrossChainTransferSteps ==
    <<"account_bridge_config", "init_bridge_transfer", "account_mint", "check_paused",
      "find_chain", "find_token", "check_enabled", "check_amount", "transfer_amount",
      "transfer_to_vault", "transfer_fee", "build_payload", "post_message",
      "write_bridge_transfer", "add_leaf", "emit">>

InitiateCrossChainTransferStep(step, st, a) ==
    LET config == st.bridge_config[1]
        key == <<a.destination_chain_id, a.nonce>>
        chain == ChainSlot(config, Min(FindChainSlots(config, a.destination_chain_id)))
        token == TokenSlot(chain, Min(FindTokenSlots(chain, a.mint)))
        fee_amount == BridgeFee(a.amount, config.fee_basis_points)
    IN
    CASE step = "account_bridge_config" ->
           IF st.bridge_config = None THEN Fail(st, "AccountNotInitialized")
           ELSE Pass(st, step)
      [] step = "init_bridge_transfer" ->
           IF key \in DOMAIN st.bridge_transfers THEN Fail(st, "AccountAlreadyInUse")
           ELSE Pass(st, step)
      [] step = "account_mint" ->
           \* `mint` is an Account<Mint>: the all-zero key of unused registry slots
           \* is not a mint of the token program
           IF a.mint = TokenConfigDefault.mint THEN Fail(st, "AccountOwnedByWrongProgram")
           ELSE Pass(st, step)
      [] step = "check_paused" ->
           IF config.paused THEN Fail(st, "BridgePaused") ELSE Pass(st, step)
      [] step = "find_chain" ->
           IF FindChainSlots(config, a.destination_chain_id) = {}
           THEN Fail(st, "ChainNotSupported")
           ELSE Pass(st, step)
      [] step = "find_token" ->
           IF FindTokenSlots(chain, a.mint) = {} THEN Fail(st, "TokenNotSupported")
           ELSE Pass(st, step)
      [] step = "check_enabled" ->
           IF ~token.enabled THEN Fail(st, "TokenNotEnabled") ELSE Pass(st, step)
      [] step = "check_amount" ->
           IF ~AmountInRange(a.amount, token) THEN Fail(st, "InvalidAmount")
           ELSE Pass(st, step)
      [] step = "transfer_amount" ->
           IF a.amount < fee_amount THEN Fail(st, "ArithmeticOverflow")
           ELSE Pass([st EXCEPT !.out.amount = a.amount - fee_amount], step)
      [] step = "transfer_to_vault" ->
           \* vault_token_account is any token account of the mint: the accounts
           \* struct does not constrain its owner
           IF st.wallet[<<a.user, a.mint>>] < a.amount THEN Fail(st, "TransferFailed")
           ELSE Pass(CreditTokens([st EXCEPT !.wallet[<<a.user, a.mint>>] = @ - a.amount],
                                  a.vault_token_account, a.mint, a.amount), step)
      [] step = "transfer_fee" ->
           \* signed by the vault authority: the token program refuses it for an
           \* account of another owner
           IF fee_amount = 0 THEN st
           ELSE IF a.vault_token_account # VaultAuthority THEN Fail(st, "OwnerMismatch")
           ELSE IF st.bridge_vault[a.mint] < fee_amount THEN Fail(st, "TransferFailed")
           ELSE Pass([st EXCEPT !.bridge_vault[a.mint] = @ - fee_amount,
                                !.wallet[<<config.treasury, a.mint>>] = @ + fee_amount],
                     step)
      [] step = "build_payload" ->
           Pass([st EXCEPT !.out.payload =
                   BuildPayload(st.out.amount, token.mint, a.destination_chain_id,
                                a.destination_address, a.commitment, a.nonce)], step)
      [] step = "post_message" ->
           Pass([st EXCEPT !.wormhole_sequence = @ + 1], step)
      [] step = "write_bridge_transfer" ->
           Pass([st EXCEPT !.bridge_transfers = Put(@, key,
                   [ dest_chain_id |-> a.destination_chain_id,
                     amount |-> st.out.amount,
                     token_mint |-> a.mint,
                     dest_token_id |-> token.dest_token_id,
                     commitment |-> a.commitment,
                     dest_address |-> a.destination_address,
                     wormhole_sequence |-> st.wormhole_sequence - 1,
                     status |-> InitialTransferStatus ])], step)
      [] step = "add_leaf" ->
           AddLeaf(st, a.merkle_tree, a.commitment, step)
      [] step = "emit" -> Pass(st, step)

RECURSIVE RunInitiateCrossChainTransfer(_, _, _)
RunInitiateCrossChainTransfer(steps, st, a) ==
    IF steps = <<>> \/ st.err # "Ok" THEN st
    ELSE RunInitiateCrossChainTransfer(
             Tail(steps), InitiateCrossChainTransferStep(Head(steps), st, a), a)

InitiateCrossChainTransfer(user, mint, vault_token_account, merkle_tree, amount, destination_chain_id, destination_address, commitment, nonce) ==
    /\ merkle_tree \in DOMAIN trees
    /\ LET a == [user |-> user, mint |-> mint, vault_token_account |-> vault_token_account,
                 merkle_tree |-> merkle_tree,
                 amount |-> amount, destination_chain_id |-> destination_chain_id,
                 destination_address |-> destination_address,
                 commitment |-> commitment, nonce |-> nonce]
       IN Commit("initiate_cross_chain_transfer", a,
                 RunInitiateCrossChainTransfer(InitiateCrossChainTransferSteps, Staged, a))

\* ---------------------------------------------- process_incoming_transfer
\* the shortest payload the length check lets through is one byte longer than this
PAYLOAD_FIELDS_LEN == 1 + 8 + 32 + 2 + 2 + 32 + 32 + 4

\* process_incoming_transfer with a processed_vaa account that is not `init`
ProcessIncomingTransferStepsNoInit ==
    <<"account_bridge_config", "account_external_emitter",
      "constraint_emitter_seeds", "check_paused",
      "check_emitter_key", "check_emitter_active", "check_length",
      "check_payload_id", "check_source_chain", "check_target_chain", "add_leaf",
      "write_processed_vaa", "emit">>

\* process_incoming_transfer that records the message without adding its commitment
ProcessIncomingTransferStepsNoAppend ==
    <<"account_bridge_config", "account_external_emitter", "init_processed_vaa",
      "constraint_emitter_seeds", "check_paused",
      "check_emitter_key", "check_emitter_active", "check_length",
      "check_payload_id", "check_source_chain", "check_target_chain",
      "write_processed_vaa", "emit">>

\* process_incoming_transfer adding the commitment twice
ProcessIncomingTransferStepsAppendTwice ==
    <<"account_bridge_config", "account_external_emitter", "init_processed_vaa",
      "constraint_emitter_seeds", "check_paused",
      "check_emitter_key", "check_emitter_active", "check_length",
      "check_payload_id", "check_source_chain", "check_target_chain", "add_leaf",
      "add_leaf", "write_processed_vaa", "emit">>

ProcessIncomingTransferSteps ==
    <<"account_bridge_config", "account_external_emitter", "init_processed_vaa",
      "constraint_emitter_seeds", "check_paused", "check_emitter_key", "check_emitter_active", "check_length",
      "check_payload_id", "check_source_chain", "check_target_chain", "add_leaf",
      "write_processed_vaa", "emit">>

ProcessIncomingTransferStep(step, st, a) ==
    LET vaa == a.vaa
        payload == vaa.payload
        derived == <<vaa.emitter_chain, vaa.emitter_address>>
    IN
    CASE step = "account_bridge_config" ->
           IF st.bridge_config = None THEN Fail(st, "AccountNotInitialized")
           ELSE Pass(st, step)
      [] step = "account_external_emitter" ->
           IF a.external_emitter \notin DOMAIN st.external_emitters
           THEN Fail(st, "AccountNotInitialized")
           ELSE Pass(st, step)
      [] step = "init_processed_vaa" ->
           IF a.vaa_hash \in DOMAIN st.processed_vaas THEN Fail(st, "AccountAlreadyInUse")
           ELSE Pass([st EXCEPT !.processed_vaas = Put(@, a.vaa_hash, [timestamp |-> 0])],
                     step)
      [] step = "constraint_emitter_seeds" ->
           IF derived # a.external_emitter THEN Fail(st, "ConstraintSeeds")
           ELSE Pass(st, step)
      [] step = "check_paused" ->
           IF st.bridge_config[1].paused THEN Fail(st, "BridgePaused") ELSE Pass(st, step)
      [] step = "check_emitter_key" ->
           IF derived # a.external_emitter THEN Fail(st, "InvalidExternalEmitter")
           ELSE Pass(st, step)
      [] step = "check_emitter_active" ->
           IF ~st.external_emitters[a.external_emitter].is_active
           THEN Fail(st, "InvalidExternalEmitter")
           ELSE Pass(st, step)
      [] step = "check_length" ->
           IF ~(Len(payload) > PAYLOAD_FIELDS_LEN) THEN Fail(st, "InvalidWormholeMessage")
           ELSE Pass(st, step)
      [] step = "check_payload_id" ->
           IF payload[1] # PAYLOAD_ID THEN Fail(st, "InvalidWormholeMessage")
           ELSE Pass(st, step)
      [] step = "check_source_chain" ->
           IF FromBeBytes(Slice(payload, 41, 43)) # vaa.emitter_chain
           THEN Fail(st, "InvalidWormholeMessage")
           ELSE Pass(st, step)
      [] step = "check_target_chain" ->
           IF FromBeBytes(Slice(payload, 43, 45)) # CHAIN_ID_SOLANA
           THEN Fail(st, "InvalidWormholeMessage")
           ELSE Pass(st, step)
      [] step = "add_leaf" ->
           AddLeaf(st, a.merkle_tree, FromBeBytes(Slice(payload, 77, 109)), step)
      [] step = "write_processed_vaa" ->
           Pass([st EXCEPT !.processed_vaas[a.vaa_hash] = [timestamp |-> 1]], step)
      [] step = "emit" -> Pass(st, step)

RECURSIVE RunProcessIncomingTransfer(_, _, _)
RunProcessIncomingTransfer(steps, st, a) ==
    IF steps = <<>> \/ st.err # "Ok" THEN st
    ELSE RunProcessIncomingTransfer(
             Tail(steps), ProcessIncomingTransferStep(Head(steps), st, a), a)

ProcessIncomingTransfer(vaa, vaa_hash, external_emitter, merkle_tree) ==
    /\ merkle_tree \in DOMAIN trees
    /\ LET a == [vaa |-> vaa, vaa_hash |-> vaa_hash,
                 external_emitter |-> external_emitter, merkle_tree |-> merkle_tree]
       IN Commit("process_incoming_transfer", a,
                 RunProcessIncomingTransfer(ProcessIncomingTransferSteps, Staged, a))


\* --------------------------------------------- complete_bridge_withdrawal
\* The handler checks the root against the tree, checks and fills the
\* NullifierSet account, takes the amount from the pool and pays the recipient and
\* the relayer out of the vault token account the vault authority signs for.
CompleteBridgeWithdrawalSteps ==
    <<"check_root", "check_nullifier", "insert_nullifier", "withdraw_amount",
      "transfer_recipient", "transfer_relayer", "emit">>

CompleteBridgeWithdrawalStep(step, st, a) ==
    LET tree == st.trees[a.merkle_tree]
        withdraw_amount == st.pools[tree.pool].denomination
    IN
    CASE step = "check_root" ->
           IF a.root # tree.root THEN Fail(st, "InvalidRoot") ELSE Pass(st, step)
      [] step = "check_nullifier" ->
           IF a.nullifier_hash \in st.nullifier_set THEN Fail(st, "NullifierAlreadyUsed")
           ELSE Pass(st, step)
      [] step = "insert_nullifier" ->
           Pass([st EXCEPT !.nullifier_set = @ \cup {a.nullifier_hash}], step)
      [] step = "withdraw_amount" ->
           IF withdraw_amount < a.fee THEN Fail(st, "InvalidFee")
           ELSE Pass([st EXCEPT !.out.amount = withdraw_amount - a.fee], step)
      [] step = "transfer_recipient" ->
           IF st.bridge_vault[a.mint] < st.out.amount THEN Fail(st, "TransferFailed")
           ELSE Pass([st EXCEPT !.bridge_vault[a.mint] = @ - st.out.amount,
                                !.wallet[<<a.recipient, a.mint>>] = @ + st.out.amount],
                     step)
      [] step = "transfer_relayer" ->
           IF ~(a.fee > 0 /\ a.relayer # NoAccount) THEN st
           ELSE IF st.bridge_vault[a.mint] < a.fee THEN Fail(st, "TransferFailed")
           ELSE Pass([st EXCEPT !.bridge_vault[a.mint] = @ - a.fee,
                                !.wallet[<<a.relayer, a.mint>>] = @ + a.fee], step)
      [] step = "emit" -> Pass(st, step)

RECURSIVE RunCompleteBridgeWithdrawal(_, _, _)
RunCompleteBridgeWithdrawal(steps, st, a) ==
    IF steps = <<>> \/ st.err # "Ok" THEN st
    ELSE RunCompleteBridgeWithdrawal(
             Tail(steps), CompleteBridgeWithdrawalStep(Head(steps), st, a), a)

CompleteBridgeWithdrawal(merkle_tree, mint, proof_data, root, nullifier_hash, recipient, relayer, fee) ==
    /\ merkle_tree \in DOMAIN trees
    /\ LET a == [merkle_tree |-> merkle_tree, mint |-> mint, proof_data |-> proof_data,
                 root |-> root, nullifier_hash |-> nullifier_hash,
                 recipient |-> recipient, relayer |-> relayer, fee |-> fee]
       IN Commit("complete_bridge_withdrawal", a,
                 RunCompleteBridgeWithdrawal(CompleteBridgeWithdrawalSteps, Staged, a))

\* ------------------------------------------------------------------ Init
Owners == {"user", "recipient", "relayer", "treasury"}
Mints == {NativeMint, "USDC"}

\* the denomination of the pools of the specifications below
Denomination == 1000

\* the accounts of the program with bridge configuration `config` and no other
\* account; the depositor holds funds
DeployedBridge(funds, config) ==
    /\ pools = <<>>
    /\ trees = <<>>
    /\ nullifiers = <<>>
    /\ nullifier_set = {}
    /\ relayers = <<>>
    /\ vault = <<>>
    /\ wallet = [w \in Owners \X Mints |->
                   IF w[1] = "user" THEN funds ELSE 0]
    /\ bridge_config = config
    /\ external_emitters = <<>>
    /\ processed_vaas = <<>>
    /\ bridge_transfers = <<>>
    /\ bridge_vault = [m \in Mints |-> 0]
    /\ wormhole_sequence = 0
    /\ root_history = <<>>
    /\ deposit_log = <<>>
    /\ inbound_log = <<>>
    /\ last = [op |-> "deploy", args |-> <<>>, err |-> "Ok", done |-> <<>>,
               out |-> [leaf_index |-> -1, amount |-> 0, payload |-> <<>>]]

\* the program is deployed: no account of it exists
Deployed(funds) == DeployedBridge(funds, None)

\* the depositor can pay UserDeposits deposits and half of one more
Init == Deployed(UserDeposits * Denomination + Denomination \div 2)

\* proof blobs a caller may submit with public inputs pub: a proof generated for
\* them, a proof of another statement, bytes that are no proof
ProofKinds == {"valid", "forged", "malformed"}

ProofData(kind, pub) ==
    CASE kind = "valid" -> [deser |-> TRUE, statement |-> pub]
      [] kind = "forged" -> [deser |-> TRUE, statement |-> <<>>]
      [] kind = "malformed" -> [deser |-> FALSE, statement |-> <<>>]

\* a withdraw call with proof kind `kind`
WithdrawCall(p, kind, root, nullifier_hash, recipient, fee, relayer, relayer_stats) ==
    Withdraw(p, p,
             ProofData(kind, <<root, nullifier_hash, recipient, relayer, fee>>),
             root, nullifier_hash, recipient, fee, relayer, relayer_stats)

\* the roots tree p has held
PastRoots(p) == {root_history[p][i] : i \in 1..Len(root_history[p])}

\* roots a withdrawer may present for pool p: any root the tree has held, or garbage
RootInputs(p) == PastRoots(p) \cup {BogusRoot}

\* -------------------------------------------------- Spec: the pool ledger
PoolInitializePool ==
    \E d \in {0, Denomination}, depth \in {MIN_TREE_DEPTH - 1, MIN_TREE_DEPTH} :
        InitializePool("admin", d, depth, FALSE, NativeMint)

PoolSetRelayer == SetRelayer("relayer", TRUE, 100)

PoolSetActive ==
    \E p \in DOMAIN pools, signer \in {"admin", "user"}, active \in BOOLEAN :
        UpdatePoolConfig(p, signer, None, None, Some(active))

PoolDeposit ==
    \E p \in DOMAIN pools, c \in Commitments : Deposit(p, p, "user", c)

PoolWithdraw ==
    \E p \in DOMAIN pools, kind \in {"valid", "forged"}, h \in NullifierHashes,
       fee \in {0, 20}, r \in {<<NoAccount, NoAccount>>, <<"relayer", "relayer">>} :
        \E root \in RootInputs(p) :
            WithdrawCall(p, kind, root, h, "recipient", fee, r[1], r[2])

Next ==
    \/ PoolInitializePool
    \/ PoolSetRelayer
    \/ PoolSetActive
    \/ PoolDeposit
    \/ PoolWithdraw

Spec == Init /\ [][Next]_vars


\* ------------------------------------------- SpecFee: fees of a withdrawal
FeeInitializePool ==
    InitializePool("admin", Denomination, MIN_TREE_DEPTH, FALSE, NativeMint)

FeeSetRelayer == SetRelayer("relayer", TRUE, 100)

\* the authority replaces the fee cap, the minimum net amount or the active flag
FeeConfigInputs ==
    {<<Some(155), None, None>>, <<Some(MAX_FEE_BP_LIMIT + 1), None, None>>,
     <<None, Some(Denomination - 20), None>>, <<None, Some(Denomination - 15), None>>,
     <<None, None, Some(FALSE)>>, <<None, None, Some(TRUE)>>}

FeeUpdatePoolConfig ==
    \E p \in DOMAIN pools, c \in FeeConfigInputs :
        UpdatePoolConfig(p, "admin", c[1], c[2], c[3])

FeeDeposit == \E p \in DOMAIN pools : Deposit(p, p, "user", 1)

\* fees around the caps of 155 bp and 200 bp, around the default minimum, around
\* the denomination
FeeInputs == {0, 15, 16, 20, 21, Denomination - 99, Denomination, Denomination + 1}

FeeWithdraw ==
    \E p \in DOMAIN pools, h \in NullifierHashes, fee \in FeeInputs,
       r \in {<<NoAccount, NoAccount>>, <<"relayer", "relayer">>} :
        \E root \in {trees[p].root, BogusRoot} :
            WithdrawCall(p, "valid", root, h, "recipient", fee, r[1], r[2])

NextFee ==
    \/ FeeInitializePool
    \/ FeeSetRelayer
    \/ FeeUpdatePoolConfig
    \/ FeeDeposit
    \/ FeeWithdraw

\* the depositor can pay one deposit
InitFee == Deployed(Denomination)

SpecFee == InitFee /\ [][NextFee]_vars

\* ---------------------------------------- SpecCap: a tree filled to capacity
\* a pool of denomination 1 with the smallest tree
CapInitializePool == InitializePool("admin", 1, MIN_TREE_DEPTH, FALSE, NativeMint)

CapDeposit == \E p \in DOMAIN pools : Deposit(p, p, "user", 1)

NextCap ==
    \/ CapInitializePool
    \/ CapDeposit

\* the depositor can pay two deposits more than the tree has leaves
InitCap == Deployed(Pow2(MIN_TREE_DEPTH) + 2)

SpecCap == InitCap /\ [][NextCap]_vars

\* ------------------------------- SpecRoot: roots under appends from the bridge
\* the foreign emitter: its chain and its address
Emitter == [chain |-> 2, address |-> 5]

\* a transfer payload as a foreign emitter lays it out: the fields
\* process_incoming_transfer reads, followed by `trailer`
InboundPayload(payload_id, source_chain, target_chain, commitment, trailer) ==
    <<payload_id>>
      \o ToBeBytes(Denomination, 8)
      \o PubkeyBytes(NativeMint)
      \o ToBeBytes(source_chain, 2)
      \o ToBeBytes(target_chain, 2)
      \o PubkeyBytes("recipient")
      \o ToBeBytes(commitment, 32)
      \o ToBeBytes(0, 4)
      \o trailer

\* messages of the registered emitter: a payload with one trailing byte, the same
\* without it, one for another target chain
InboundVaas ==
    {[emitter_chain |-> Emitter.chain, emitter_address |-> Emitter.address, payload |-> pl] :
        pl \in {InboundPayload(PAYLOAD_ID, Emitter.chain, CHAIN_ID_SOLANA, 1, <<0>>),
                InboundPayload(PAYLOAD_ID, Emitter.chain, CHAIN_ID_SOLANA, 1, <<>>),
                InboundPayload(PAYLOAD_ID, Emitter.chain, Emitter.chain, 1, <<0>>)}}

RootInitializePool ==
    InitializePool("admin", Denomination, MIN_TREE_DEPTH, FALSE, NativeMint)

RootInitializeBridge == InitializeBridge("admin", "treasury", 0, 1)

RootRegisterEmitter ==
    \E signer \in {"admin", "user"} :
        RegisterExternalEmitter(signer, Emitter.chain, Emitter.address)

RootIncoming ==
    \E p \in DOMAIN trees, vaa \in InboundVaas, vaa_hash \in 1..NumVaas :
        ProcessIncomingTransfer(vaa, vaa_hash, <<vaa.emitter_chain, vaa.emitter_address>>, p)

RootDeposit == \E p \in DOMAIN pools : Deposit(p, p, "user", 1)

RootWithdraw ==
    \E p \in DOMAIN pools, h \in NullifierHashes :
        \E root \in RootInputs(p) :
            WithdrawCall(p, "valid", root, h, "recipient", 0, NoAccount, NoAccount)

NextRoot ==
    \/ RootInitializePool
    \/ RootInitializeBridge
    \/ RootRegisterEmitter
    \/ RootIncoming
    \/ RootDeposit
    \/ RootWithdraw

SpecRoot == InitFee /\ [][NextRoot]_vars

\* ------------------------------------- SpecInbound: messages from other chains
\* an emitter nobody registered
Stranger == [chain |-> 3, address |-> 5]

\* the fields of a transfer to this chain with one trailing byte (114 bytes)
GoodPayload == InboundPayload(PAYLOAD_ID, Emitter.chain, CHAIN_ID_SOLANA, 1, <<0>>)

\* payloads of the registered emitter: well-formed with a trailing byte, the 113
\* bytes of the fields alone, the 109 bytes up to the commitment, one byte less,
\* another payload id, another target chain, a source chain that is not the emitter's
EmitterPayloads ==
    { GoodPayload,
      SubSeq(GoodPayload, 1, 113),
      SubSeq(GoodPayload, 1, 109),
      SubSeq(GoodPayload, 1, 108),
      InboundPayload(PAYLOAD_ID + 1, Emitter.chain, CHAIN_ID_SOLANA, 1, <<0>>),
      InboundPayload(PAYLOAD_ID, Emitter.chain, Emitter.chain, 1, <<0>>),
      InboundPayload(PAYLOAD_ID, Stranger.chain, CHAIN_ID_SOLANA, 1, <<0>>) }

\* the posted messages: those of the registered emitter, a well-formed one of the
\* stranger
PostedVaas ==
    {[emitter_chain |-> Emitter.chain, emitter_address |-> Emitter.address, payload |-> pl] :
        pl \in EmitterPayloads}
    \cup {[emitter_chain |-> Stranger.chain, emitter_address |-> Stranger.address,
           payload |-> InboundPayload(PAYLOAD_ID, Stranger.chain, CHAIN_ID_SOLANA, 1, <<0>>)]}

InInitializePool ==
    InitializePool("admin", Denomination, MIN_TREE_DEPTH, FALSE, NativeMint)

InInitializeBridge == InitializeBridge("admin", "treasury", 0, 1)

InRegisterEmitter == RegisterExternalEmitter("admin", Emitter.chain, Emitter.address)

InSetPaused ==
    \E paused \in BOOLEAN : UpdateBridgeConfig("admin", None, None, Some(paused), None)

InDeposit == \E p \in DOMAIN pools : Deposit(p, p, "user", 1)

\* anyone submits a posted message under a digest, with an emitter account
InIncoming ==
    \E p \in DOMAIN trees, vaa \in PostedVaas, vaa_hash \in 1..NumVaas,
       handle \in {<<Emitter.chain, Emitter.address>>, <<Stranger.chain, Stranger.address>>} :
        ProcessIncomingTransfer(vaa, vaa_hash, handle, p)

NextInbound ==
    \/ InInitializePool
    \/ InInitializeBridge
    \/ InRegisterEmitter
    \/ InSetPaused
    \/ InDeposit
    \/ InIncoming

SpecInbound == InitFee /\ [][NextInbound]_vars

\* ------------------------------------------------------------- SpecRelay
\* outbound transfers over a configured registry, with pausing, fee changes and
\* an inbound message

\* the destination chains of the registry (Wormhole ids), a chain outside it, and
\* a destination address
Destination == [chain |-> 258, closed |-> 3, unknown |-> 4, address |-> 9]

\* nonces a sender uses: two, each with two different low bytes
RelayNonces == {258, 516}

\* the limits of the bridged token
RelayLimits == [min_amount |-> Denomination \div 10, max_amount |-> Denomination]

\* the bridge configuration after initialize_bridge and the registry updates of an
\* administrator: USDC enabled for one chain, registered but disabled for another
RelayRegistry ==
    [ authority |-> "admin", treasury |-> "treasury", fee_basis_points |-> 0,
      paused |-> FALSE, chain_count |-> 2,
      supported_chains |->
        << [chain_id |-> Destination.chain, token_count |-> 1,
            tokens |-> << [mint |-> "USDC", dest_token_id |-> 7,
                           min_amount |-> RelayLimits.min_amount,
                           max_amount |-> RelayLimits.max_amount, enabled |-> TRUE] >>],
           [chain_id |-> Destination.closed, token_count |-> 1,
            tokens |-> << [mint |-> "USDC", dest_token_id |-> 7,
                           min_amount |-> RelayLimits.min_amount,
                           max_amount |-> RelayLimits.max_amount, enabled |-> FALSE] >>] >>,
      wormhole_finality |-> 1 ]

\* the sender can pay one transfer of the largest and one of the smallest amount
InitRelay ==
    DeployedBridge(RelayLimits.max_amount + RelayLimits.min_amount, Some(RelayRegistry))

\* fee rates of the bridge: none, and one under which the fee of the smallest
\* amount is not a whole number
RelayFees == {0, 155}

\* amounts around the limits of the token
RelayAmounts ==
    { RelayLimits.min_amount - 1, RelayLimits.min_amount,
      RelayLimits.max_amount, RelayLimits.max_amount + 1 }

\* the calls of a sender: to the open chain with each amount into the bridge's
\* vault account, with a token account of another owner as vault, to the closed
\* and to the unknown chain, and with a key that is no mint
RelayCalls ==
    {[mint |-> "USDC", vault_token_account |-> VaultAuthority, amount |-> amount,
      chain |-> Destination.chain] : amount \in RelayAmounts}
    \cup {[mint |-> "USDC", vault_token_account |-> "recipient",
           amount |-> RelayLimits.min_amount, chain |-> Destination.chain]}
    \cup {[mint |-> "USDC", vault_token_account |-> VaultAuthority,
           amount |-> RelayLimits.min_amount, chain |-> chain] :
              chain \in {Destination.closed, Destination.unknown}}
    \cup {[mint |-> NativeMint, vault_token_account |-> VaultAuthority,
           amount |-> RelayLimits.min_amount, chain |-> Destination.chain]}

RelayInitializePool ==
    InitializePool("admin", Denomination, MIN_TREE_DEPTH, FALSE, NativeMint)

RelaySetPaused ==
    \E paused \in BOOLEAN : UpdateBridgeConfig("admin", None, None, Some(paused), None)

RelaySetFee ==
    \E fee \in RelayFees : UpdateBridgeConfig("admin", Some(fee), None, None, None)

RelayRegisterEmitter == RegisterExternalEmitter("admin", Emitter.chain, Emitter.address)

RelayOutbound ==
    \E p \in DOMAIN trees, c \in RelayCalls, nonce \in RelayNonces :
        InitiateCrossChainTransfer("user", c.mint, c.vault_token_account, p, c.amount,
                                   c.chain, Destination.address, 1, nonce)

RelayIncoming ==
    \E p \in DOMAIN trees :
        ProcessIncomingTransfer([emitter_chain |-> Emitter.chain,
                                 emitter_address |-> Emitter.address,
                                 payload |-> GoodPayload],
                                1, <<Emitter.chain, Emitter.address>>, p)

NextRelay ==
    \/ RelayInitializePool
    \/ RelaySetPaused
    \/ RelaySetFee
    \/ RelayRegisterEmitter
    \/ RelayOutbound
    \/ RelayIncoming

SpecRelay == InitRelay /\ [][NextRelay]_vars

\* ------------------------------------------------------------ SpecAtomic
\* calls that fail after they wrote: two pools of one large denomination (native
\* and token), whose totals and relayer statistics overflow on the second call, a
\* configuration update with a valid and an invalid field, a transfer into a vault
\* account of another owner, an inbound message with a short payload

\* a denomination of which two exceed the u64 range
AtomicDenomination == (3 * U64_MAX) \div 5

\* the registry of SpecRelay, with a fee rate set
AtomicRegistry == [RelayRegistry EXCEPT !.fee_basis_points = 155]

InitAtomic == DeployedBridge(AtomicDenomination, Some(AtomicRegistry))

AtomicInitializePool ==
    \E d \in {0, AtomicDenomination}, depth \in {MIN_TREE_DEPTH, MAX_TREE_DEPTH + 1},
       is_spl_token \in BOOLEAN :
        InitializePool("admin", d, depth, is_spl_token, "USDC")

AtomicSetRelayer == SetRelayer("relayer", TRUE, 100)

\* the authority replaces the fee cap and the minimum net amount in one call
AtomicConfigInputs ==
    {<<Some(300), Some(AtomicDenomination + 1)>>, <<Some(MAX_FEE_BP_LIMIT + 1), Some(0)>>,
     <<Some(MAX_FEE_BP_LIMIT), Some(AtomicDenomination)>>}

AtomicUpdatePoolConfig ==
    \E p \in DOMAIN pools, c \in AtomicConfigInputs :
        UpdatePoolConfig(p, "admin", c[1], c[2], None)

AtomicDeposit == \E p \in DOMAIN pools : Deposit(p, p, "user", 1)

\* the depositor withdraws to themselves, with or without a relayer
AtomicWithdraw ==
    \E p \in DOMAIN pools, h \in NullifierHashes,
       r \in {<<0, NoAccount, NoAccount>>, <<1, "relayer", "relayer">>} :
        WithdrawCall(p, "valid", trees[p].root, h, "user", r[1], r[2], r[3])

\* a transfer into a token account that the vault authority does not own
AtomicOutbound ==
    \E p \in DOMAIN trees :
        InitiateCrossChainTransfer("user", "USDC", "recipient", p, RelayLimits.min_amount,
                                   Destination.chain, Destination.address, 1, 258)

AtomicRegisterEmitter == RegisterExternalEmitter("admin", Emitter.chain, Emitter.address)

AtomicIncoming ==
    \E p \in DOMAIN trees :
        ProcessIncomingTransfer([emitter_chain |-> Emitter.chain,
                                 emitter_address |-> Emitter.address,
                                 payload |-> SubSeq(GoodPayload, 1, 113)],
                                1, <<Emitter.chain, Emitter.address>>, p)

NextAtomic ==
    \/ AtomicInitializePool
    \/ AtomicSetRelayer
    \/ AtomicUpdatePoolConfig
    \/ AtomicDeposit
    \/ AtomicWithdraw
    \/ AtomicOutbound
    \/ AtomicRegisterEmitter
    \/ AtomicIncoming

SpecAtomic == InitAtomic /\ [][NextAtomic]_vars

\* ================================================================ claims

\* C1 (as claimed): over any sequence of withdraw calls at most one call using a
\* nullifier hash h of a pool succeeds and pays out; every other call using h fails
\* with NullifierAlreadySpent and changes no balance.
C1_OneWithdrawPerNullifier ==
    [][ last'.op = "withdraw" =>
          LET key == <<last'.args.pool, last'.args.nullifier_hash>> IN
          /\ DOMAIN nullifiers \subseteq DOMAIN nullifiers'
          /\ last'.err = "Ok" => key \notin DOMAIN nullifiers /\ key \in DOMAIN nullifiers'
          /\ key \in DOMAIN nullifiers =>
               /\ last'.err = "NullifierAlreadySpent"
               /\ vault' = vault
               /\ wallet' = wallet ]_vars

\* C2 (as claimed): a withdraw succeeds only if the proof gate accepts the submitted
\* proof for the public inputs [root, nullifierHash, recipient, relayer, fee].
C2_WithdrawProofGated ==
    (last.op = "withdraw" /\ last.err = "Ok") =>
        VerifyBridgeProof(last.args.proof_data, PoolVerifyingKey,
                          WithdrawPublicInputs(last.args)) = "Ok"

\* C3: in every withdraw the nullifier record is created and marked spent before any
\* transfer out of the vault, balances move only in a call that spends a fresh
\* nullifier, and a call whose nullifier record already exists aborts with no
\* transfer and no balance change.
C3_NullifierBeforeFunds ==
    [][ last'.op = "withdraw" =>
          LET key == <<last'.args.pool, last'.args.nullifier_hash>>
              d == last'.done
          IN
          /\ \A t \in {"transfer_recipient", "transfer_relayer"} :
               Did(d, t) =>
                 /\ Did(d, "init_nullifier") /\ Pos(d, "init_nullifier") < Pos(d, t)
                 /\ Did(d, "mark_spent") /\ Pos(d, "mark_spent") < Pos(d, t)
          /\ (vault' # vault \/ wallet' # wallet) =>
               /\ key \notin DOMAIN nullifiers
               /\ key \in DOMAIN nullifiers' /\ nullifiers'[key].is_spent
          /\ key \in DOMAIN nullifiers =>
               /\ last'.err # "Ok"
               /\ ~Did(d, "transfer_recipient") /\ ~Did(d, "transfer_relayer")
               /\ vault' = vault /\ wallet' = wallet /\ nullifiers' = nullifiers ]_vars

\* C3 witness: a withdraw that paid the recipient and the relayer
C3_Witness ==
    /\ last.op = "withdraw" /\ last.err = "Ok"
    /\ Did(last.done, "transfer_recipient") /\ Did(last.done, "transfer_relayer")

\* C4: the leaf indices of the successful deposits into a pool are 0,1,2,... in call
\* order, and after n of them total_deposited = denomination * n.
C4_DepositIndices ==
    \A p \in DOMAIN pools :
        /\ \A i \in 1..Len(deposit_log[p]) : deposit_log[p][i] = i - 1
        /\ pools[p].total_deposited = pools[p].denomination * Len(deposit_log[p])

\* C4 witness: two successful deposits into one pool
C4_Witness == \E p \in DOMAIN pools : Len(deposit_log[p]) >= 2 /\ last.op = "deposit"


\* the tree an append of call l goes to
TreeOf(l) == IF l.op = "deposit" THEN l.args.tree ELSE l.args.merkle_tree

AppendOps == {"deposit", "initiate_cross_chain_transfer", "process_incoming_transfer"}

\* C5 (as claimed): a deposit into a tree that holds 2^max_depth leaves fails with
\* MerkleTreeFull and changes nothing; the deposit that fills the last index
\* succeeds.
C5_AppendAtCapacity ==
    [][ last'.op = "deposit" =>
          LET t == last'.args.tree
              full == Pow2(trees[t].max_depth)
          IN
          /\ trees[t].num_leaves = full =>
               /\ last'.err = "MerkleTreeFull"
               /\ UNCHANGED <<pools, trees, vault, wallet>>
          /\ (trees[t].num_leaves = full - 1 /\ last'.err = "Ok") =>
               last'.out.leaf_index = full - 1 ]_vars

\* C6 (as claimed): no tree ever holds more than 2^max_depth leaves, and every
\* successful append (deposit, outbound mirror, inbound mirror) was given the
\* tree's leaf count before the increment as its leaf index.
C6_LeafCountAndIndex ==
    /\ \A t \in DOMAIN trees : trees[t].num_leaves <= Pow2(trees[t].max_depth)
    /\ (last.op \in AppendOps /\ last.err = "Ok") =>
          last.out.leaf_index = trees[TreeOf(last)].num_leaves - 1

\* the roots a retention window of RootWindow entries holds for pool p
RootsInWindow(p) ==
    {root_history[p][i] :
        i \in {j \in 1..Len(root_history[p]) : j > Len(root_history[p]) - RootWindow}}

\* C7 (as claimed): a withdraw on an active pool, with a fresh nullifier, that
\* presents a root inside the retention window of the tree's recent roots passes the
\* root check.
C7_RecentRootAccepted ==
    [][ ( /\ last'.op = "withdraw"
          /\ pools[last'.args.pool].is_active
          /\ <<last'.args.pool, last'.args.nullifier_hash>> \notin DOMAIN nullifiers
          /\ last'.args.root \in RootsInWindow(last'.args.pool) )
        => Did(last'.done, "check_root") ]_vars

\* the fee errors of withdraw
FeeErrors == {"InvalidFeeAmount", "FeeTooHigh", "CalculationError", "WithdrawalAmountTooLow"}

\* C8: a withdraw succeeds only if fee <= min(denomination, floor(denomination *
\* capBp / 10000)) and denomination - fee >= minWithdrawal, and then pays
\* denomination - fee; a call that reaches the fee checks fails them exactly when
\* one of the two bounds is broken, so that equality on both bounds passes and a
\* fee one above the cap fails.
C8_FeeBounds ==
    last.op = "withdraw" =>
        LET pool == pools[last.args.pool]
            fee == last.args.fee
            d == pool.denomination
            cap == (d * pool.max_fee_basis_points) \div 10000
            within == fee <= d /\ fee <= cap /\ d - fee >= pool.min_withdrawal_amount
        IN
        /\ last.err = "Ok" => within /\ last.out.amount = d - fee
        /\ Did(last.done, "check_root") => (within <=> last.err \notin FeeErrors)

\* C8 witness: a withdraw succeeded with the fee equal to the cap and the net amount
\* equal to the minimum
C8_Witness ==
    /\ last.op = "withdraw" /\ last.err = "Ok"
    /\ LET pool == pools[last.args.pool] IN
       /\ last.args.fee * 10000 <= pool.denomination * pool.max_fee_basis_points
       /\ (last.args.fee + 1) * 10000 > pool.denomination * pool.max_fee_basis_points
       /\ last.args.fee > 0
       /\ pool.denomination - last.args.fee = pool.min_withdrawal_amount

\* a withdraw call a that is valid but for its fee: active pool, current root, fresh
\* nullifier, relayer and relayer statistics supplied, funded vault
ValidButFee(a) ==
    /\ pools[a.pool].is_active
    /\ a.tree = a.pool /\ a.root = trees[a.tree].root
    /\ <<a.pool, a.nullifier_hash>> \notin DOMAIN nullifiers
    /\ a.relayer # NoAccount /\ a.relayer_stats # NoAccount
    /\ vault[a.pool] >= pools[a.pool].denomination

\* the pool of the scenario: denomination 1000, fee cap 200 bp, minimum 100
ScenarioPool(p) ==
    /\ pools[p].denomination = 1000
    /\ pools[p].max_fee_basis_points = 200
    /\ pools[p].min_withdrawal_amount = 100

\* C9 (as claimed): in the scenario pool a withdraw with fee 20 succeeds with net
\* 980, with fee 21 fails FeeTooHigh, with fee 901 fails WithdrawalAmountTooLow.
C9_ScenarioAsClaimed ==
    [][ (last'.op = "withdraw" /\ ValidButFee(last'.args) /\ ScenarioPool(last'.args.pool)) =>
          /\ last'.args.fee = 20 => last'.err = "Ok" /\ last'.out.amount = 980
          /\ last'.args.fee = 21 => last'.err = "FeeTooHigh"
          /\ last'.args.fee = 901 => last'.err = "WithdrawalAmountTooLow" ]_vars

\* C9 (amended): in the scenario pool a withdraw with fee 20 succeeds and pays 980 to
\* the recipient and 20 to the relayer, with fee 21 fails FeeTooHigh, and with fee 901
\* fails FeeTooHigh as well, the cap being checked before the minimum; the failed
\* calls move no funds.
C9_Scenario ==
    [][ (last'.op = "withdraw" /\ ValidButFee(last'.args) /\ ScenarioPool(last'.args.pool)) =>
          LET a == last'.args
              to == <<a.recipient, a.pool[2]>>
              rl == <<a.relayer, a.pool[2]>>
          IN
          /\ a.fee = 20 =>
               /\ last'.err = "Ok" /\ last'.out.amount = 980
               /\ wallet'[to] = wallet[to] + 980
               /\ wallet'[rl] = wallet[rl] + 20
               /\ vault'[a.pool] = vault[a.pool] - 1000
          /\ a.fee \in {21, 901} =>
               /\ last'.err = "FeeTooHigh"
               /\ wallet' = wallet /\ vault' = vault ]_vars

\* C9 witness: the fee 901 call was made on the scenario pool and failed on the cap
C9_Witness ==
    /\ last.op = "withdraw" /\ last.args.fee = 901 /\ last.err = "FeeTooHigh"
    /\ ScenarioPool(last.args.pool)
    /\ Did(last.done, "check_fee_denomination")

\* the accounts of withdraw call a validate but for the pool's active flag: fresh
\* nullifier, the pool's tree, relayer supplied with a fee, statistics with a relayer
AccountsValid(a) ==
    /\ <<a.pool, a.nullifier_hash>> \notin DOMAIN nullifiers
    /\ a.tree = a.pool
    /\ a.fee = 0 \/ a.relayer # NoAccount
    /\ a.relayer = NoAccount \/ a.relayer_stats # NoAccount

\* C10 (as claimed): the checks of withdraw run in the order PoolInactive,
\* InvalidMerkleRoot, FeeTooHigh, WithdrawalAmountTooLow, the first failing check
\* giving the error; a fee above the denomination is reported as FeeTooHigh.
C10_CheckOrderAsClaimed ==
    [][ (last'.op = "withdraw" /\ AccountsValid(last'.args)) =>
          LET a == last'.args
              pool == pools[a.pool]
              cap == (pool.denomination * pool.max_fee_basis_points) \div 10000
          IN
          IF ~pool.is_active THEN last'.err = "PoolInactive"
          ELSE IF a.root # trees[a.tree].root THEN last'.err = "InvalidMerkleRoot"
          ELSE IF a.fee > pool.denomination \/ a.fee > cap THEN last'.err = "FeeTooHigh"
          ELSE IF pool.denomination - a.fee < pool.min_withdrawal_amount
               THEN last'.err = "WithdrawalAmountTooLow"
          ELSE last'.err \in {"Ok", "TransferFailed"} ]_vars

\* C10 (amended): for a withdraw whose accounts validate the checks run in the order
\* PoolInactive, InvalidMerkleRoot, InvalidFeeAmount (fee above the denomination),
\* FeeTooHigh (fee above the cap), WithdrawalAmountTooLow, the first failing check
\* giving the error.
C10_CheckOrder ==
    [][ (last'.op = "withdraw" /\ AccountsValid(last'.args)) =>
          LET a == last'.args
              pool == pools[a.pool]
              cap == (pool.denomination * pool.max_fee_basis_points) \div 10000
          IN
          IF ~pool.is_active THEN last'.err = "PoolInactive"
          ELSE IF a.root # trees[a.tree].root THEN last'.err = "InvalidMerkleRoot"
          ELSE IF a.fee > pool.denomination THEN last'.err = "InvalidFeeAmount"
          ELSE IF a.fee > cap THEN last'.err = "FeeTooHigh"
          ELSE IF pool.denomination - a.fee < pool.min_withdrawal_amount
               THEN last'.err = "WithdrawalAmountTooLow"
          ELSE last'.err \in {"Ok", "TransferFailed"} ]_vars

\* C10 witness: a call with a wrong root and a fee above the denomination failed on
\* the root
C10_Witness ==
    /\ last.op = "withdraw" /\ last.err = "InvalidMerkleRoot"
    /\ last.args.fee > pools[last.args.pool].denomination
    /\ last.args.relayer # NoAccount


\* C11: a digest that has a ProcessedVaa record keeps it; every later
\* process_incoming_transfer with that digest is rejected and appends nothing; a
\* successful call is one whose digest had no record, and it records the digest.
C11_NoReplay ==
    [][ /\ DOMAIN processed_vaas \subseteq DOMAIN processed_vaas'
        /\ last'.op = "process_incoming_transfer" =>
             /\ last'.args.vaa_hash \in DOMAIN processed_vaas =>
                  /\ last'.err # "Ok"
                  /\ trees' = trees
                  /\ processed_vaas' = processed_vaas
                  /\ inbound_log' = inbound_log
             /\ last'.err = "Ok" =>
                  /\ last'.args.vaa_hash \notin DOMAIN processed_vaas
                  /\ last'.args.vaa_hash \in DOMAIN processed_vaas'
                  /\ Len(inbound_log') = Len(inbound_log) + 1 ]_vars

\* C11 witness: the call right after a successful one used the same digest with a
\* well-formed message and was rejected
C11_Witness ==
    /\ last.op = "process_incoming_transfer" /\ last.err # "Ok"
    /\ last.args.vaa.payload = GoodPayload
    /\ Len(inbound_log) > 0
    /\ inbound_log[Len(inbound_log)].vaa_hash = last.args.vaa_hash
    /\ trees[last.args.merkle_tree].num_leaves = Len(inbound_log)


\* the digests of the successful process_incoming_transfer calls
ProcessedDigests == {inbound_log[i].vaa_hash : i \in 1..Len(inbound_log)}

\* C12: a ProcessedVaa record exists for a digest exactly when one
\* process_incoming_transfer with that digest has succeeded, no digest has succeeded
\* twice, a failed call leaves no record, and every tree holds as many leaves beyond
\* its deposits as inbound messages were processed into it.
C12_RecordsMatchSuccesses ==
    /\ DOMAIN processed_vaas = ProcessedDigests
    /\ \A i, j \in 1..Len(inbound_log) :
          inbound_log[i].vaa_hash = inbound_log[j].vaa_hash => i = j
    /\ Cardinality(DOMAIN processed_vaas) = Len(inbound_log)
    /\ \A t \in DOMAIN trees :
          trees[t].num_leaves - Len(deposit_log[t]) =
             Cardinality({i \in 1..Len(inbound_log) : inbound_log[i].tree = t})
    /\ (last.op = "process_incoming_transfer" /\ last.err # "Ok") =>
          (last.args.vaa_hash \in DOMAIN processed_vaas
             <=> last.args.vaa_hash \in ProcessedDigests)

\* C12 witness: after a processed message, a call with a fresh digest got past the
\* creation of its record, failed on the payload, and left no record
C12_Witness ==
    /\ last.op = "process_incoming_transfer" /\ last.err = "InvalidWormholeMessage"
    /\ Did(last.done, "init_processed_vaa")
    /\ last.args.vaa_hash \notin DOMAIN processed_vaas
    /\ Len(inbound_log) = 1 /\ Cardinality(DOMAIN processed_vaas) = 1


\* the bridge is initialised and not paused, and digest h has no record
InboundOpen(h) ==
    /\ bridge_config # None /\ ~bridge_config[1].paused
    /\ h \notin DOMAIN processed_vaas

\* the emitter account supplied with call a is the one derived from the message,
\* is registered and is active
TrustedEmitter(a) ==
    /\ a.external_emitter = <<a.vaa.emitter_chain, a.vaa.emitter_address>>
    /\ a.external_emitter \in DOMAIN external_emitters
    /\ external_emitters[a.external_emitter].is_active

\* C13 (as claimed): process_incoming_transfer succeeds only with an emitter account
\* that is the one derived from the message, registered and active; with any other
\* it fails with InvalidExternalEmitter and changes neither a tree nor the
\* processed-message set.
C13_EmitterGate ==
    [][ (last'.op = "process_incoming_transfer" /\ InboundOpen(last'.args.vaa_hash)) =>
          /\ last'.err = "Ok" => TrustedEmitter(last'.args)
          /\ ~TrustedEmitter(last'.args) =>
               /\ last'.err = "InvalidExternalEmitter"
               /\ trees' = trees
               /\ processed_vaas' = processed_vaas ]_vars

\* C14 (as claimed): with a trusted emitter and a fresh digest,
\* process_incoming_transfer accepts a payload exactly when it has at least 109
\* bytes, payload id 100 and this chain as target; any other payload fails with
\* InvalidWormholeMessage and appends nothing.
C14_PayloadGate ==
    [][ ( /\ last'.op = "process_incoming_transfer"
          /\ InboundOpen(last'.args.vaa_hash)
          /\ TrustedEmitter(last'.args) ) =>
          LET payload == last'.args.vaa.payload
              acceptable == /\ Len(payload) >= 109
                            /\ payload[1] = 100
                            /\ 256 * payload[44] + payload[45] = CHAIN_ID_SOLANA
          IN
          /\ last'.err = "Ok" <=> acceptable
          /\ ~acceptable =>
               /\ last'.err = "InvalidWormholeMessage"
               /\ trees' = trees
               /\ processed_vaas' = processed_vaas ]_vars

\* C15: process_incoming_transfer moves no funds and touches no pool, nullifier,
\* relayer, transfer or configuration account; a successful call adds one leaf to
\* the tree it was given and one ProcessedVaa record, a failed call changes nothing.
C15_InboundFrame ==
    [][ last'.op = "process_incoming_transfer" =>
          LET t == last'.args.merkle_tree
              h == last'.args.vaa_hash
          IN
          /\ UNCHANGED <<vault, wallet, bridge_vault, nullifiers, pools, relayers,
                         bridge_transfers, bridge_config, external_emitters,
                         wormhole_sequence>>
          /\ last'.err = "Ok" =>
               /\ trees'[t].num_leaves = trees[t].num_leaves + 1
               /\ trees' = [trees EXCEPT ![t].num_leaves = trees'[t].num_leaves,
                                         ![t].root = trees'[t].root]
               /\ DOMAIN processed_vaas' = DOMAIN processed_vaas \cup {h}
               /\ h \notin DOMAIN processed_vaas
               /\ \A d \in DOMAIN processed_vaas : processed_vaas'[d] = processed_vaas[d]
          /\ last'.err # "Ok" => trees' = trees /\ processed_vaas' = processed_vaas ]_vars

\* C15 witness: a message was processed while a pool vault held a deposit
C15_Witness ==
    /\ last.op = "process_incoming_transfer" /\ last.err = "Ok"
    /\ \E p \in DOMAIN vault : vault[p] > 0 /\ pools[p].total_deposited > 0


\* the accounts of outbound call a pass validation: the bridge is initialised, the
\* BridgeTransfer account of (destination chain, nonce) is new, the mint is a mint
OutboundAccountsValid(a) ==
    /\ bridge_config # None
    /\ <<a.destination_chain_id, a.nonce>> \notin DOMAIN bridge_transfers
    /\ a.mint # TokenConfigDefault.mint

\* the registry has a token configuration for the chain and mint of call a
TokenListed(a) ==
    /\ bridge_config # None
    /\ FindChainSlots(bridge_config[1], a.destination_chain_id) # {}
    /\ FindTokenSlots(ChainSlot(bridge_config[1],
                                Min(FindChainSlots(bridge_config[1], a.destination_chain_id))),
                      a.mint) # {}

\* that token configuration
TokenOf(a) ==
    LET chain == ChainSlot(bridge_config[1],
                           Min(FindChainSlots(bridge_config[1], a.destination_chain_id)))
    IN TokenSlot(chain, Min(FindTokenSlots(chain, a.mint)))

\* an outbound call left every balance, the message sequence, the transfer records
\* and the trees as they were
OutboundNoEffect ==
    UNCHANGED <<wallet, bridge_vault, vault, wormhole_sequence, bridge_transfers, trees>>

\* C16: an initiate_cross_chain_transfer whose amount is below the token's minimum
\* or above its maximum fails, with InvalidAmount when it gets as far as the range
\* check, before any token transfer: no balance changes, no message is posted, no
\* BridgeTransfer is created and no tree changes. An amount equal to the minimum or
\* the maximum passes the range check, and succeeds when the sender can pay it into
\* the bridge's vault.
C16_AmountRange ==
    [][ (last'.op = "initiate_cross_chain_transfer" /\ TokenListed(last'.args)) =>
          LET a == last'.args
              token == TokenOf(a)
              open == OutboundAccountsValid(a) /\ ~bridge_config[1].paused /\ token.enabled
          IN
          /\ (a.amount < token.min_amount \/ a.amount > token.max_amount) =>
               /\ last'.err # "Ok"
               /\ ~Did(last'.done, "transfer_to_vault")
               /\ OutboundNoEffect
               /\ open => last'.err = "InvalidAmount"
          /\ (a.amount \in {token.min_amount, token.max_amount} /\ open) =>
               /\ Did(last'.done, "check_amount")
               /\ ( /\ wallet[<<a.user, a.mint>>] >= a.amount
                    /\ a.vault_token_account = VaultAuthority ) => last'.err = "Ok" ]_vars

\* C16 witness: after a transfer of the maximum was accepted, one above the maximum
\* is refused
C16_Witness ==
    /\ last.op = "initiate_cross_chain_transfer"
    /\ last.err = "InvalidAmount"
    /\ last.args.amount = RelayLimits.max_amount + 1
    /\ \E k \in DOMAIN bridge_transfers : bridge_transfers[k].amount = RelayLimits.max_amount


\* C17 (as claimed): while the bridge is paused every initiate_cross_chain_transfer
\* fails with BridgePaused, and one for a disabled token configuration fails with
\* TokenNotEnabled, each without any effect; while paused no
\* process_incoming_transfer succeeds.
C17_BlockedAsClaimed ==
    [][ /\ ( /\ last'.op = "initiate_cross_chain_transfer"
             /\ bridge_config # None
             /\ last'.args.mint # TokenConfigDefault.mint ) =>
             /\ bridge_config[1].paused =>
                  last'.err = "BridgePaused" /\ OutboundNoEffect
             /\ ( /\ ~bridge_config[1].paused
                  /\ TokenListed(last'.args)
                  /\ ~TokenOf(last'.args).enabled ) =>
                  last'.err = "TokenNotEnabled" /\ OutboundNoEffect
        /\ ( /\ last'.op = "process_incoming_transfer"
             /\ bridge_config # None
             /\ bridge_config[1].paused ) =>
             last'.err # "Ok" /\ trees' = trees /\ processed_vaas' = processed_vaas ]_vars

\* C17 (amended): while the bridge is paused, or for a disabled token
\* configuration, every initiate_cross_chain_transfer fails without any effect; the
\* error is BridgePaused, respectively TokenNotEnabled when not paused, for a call
\* whose accounts pass validation, and the account validation error otherwise.
\* While paused no process_incoming_transfer succeeds or changes a tree or the
\* processed messages.
C17_Blocked ==
    [][ /\ (last'.op = "initiate_cross_chain_transfer" /\ bridge_config # None) =>
             /\ bridge_config[1].paused =>
                  /\ last'.err # "Ok"
                  /\ OutboundNoEffect
                  /\ OutboundAccountsValid(last'.args) => last'.err = "BridgePaused"
             /\ (TokenListed(last'.args) /\ ~TokenOf(last'.args).enabled) =>
                  /\ last'.err # "Ok"
                  /\ OutboundNoEffect
                  /\ (OutboundAccountsValid(last'.args) /\ ~bridge_config[1].paused) =>
                       last'.err = "TokenNotEnabled"
        /\ ( /\ last'.op = "process_incoming_transfer"
             /\ bridge_config # None
             /\ bridge_config[1].paused ) =>
             /\ last'.err # "Ok"
             /\ trees' = trees
             /\ processed_vaas' = processed_vaas
             /\ inbound_log' = inbound_log ]_vars

\* C17 witness: the bridge was paused after a transfer, and a transfer the sender
\* could pay, with a new nonce, is refused as paused
C17_Witness ==
    /\ last.op = "initiate_cross_chain_transfer"
    /\ last.err = "BridgePaused"
    /\ bridge_config[1].paused
    /\ bridge_transfers # <<>>
    /\ <<last.args.destination_chain_id, last.args.nonce>> \notin DOMAIN bridge_transfers
    /\ wallet[<<"user", "USDC">>] >= last.args.amount
    /\ last.args.amount = RelayLimits.min_amount


\* C18 (as claimed): on every successful initiate_cross_chain_transfer of amount a
\* under fee rate fee_basis_points, with fee = floor(a * fee_basis_points / 10000)
\* and net = a - fee: the sender is debited a, the treasury is credited fee, the
\* bridge's vault grows by net, and the posted message and the BridgeTransfer
\* record both carry net.
C18_FeeAndNet ==
    [][ (last'.op = "initiate_cross_chain_transfer" /\ last'.err = "Ok") =>
          LET a == last'.args
              product == a.amount * bridge_config[1].fee_basis_points
              fee == CHOOSE f \in 0..a.amount :
                        f * 10000 <= product /\ product < (f + 1) * 10000
              net == a.amount - fee
          IN
          /\ wallet'[<<a.user, a.mint>>] = wallet[<<a.user, a.mint>>] - a.amount
          /\ wallet'[<<bridge_config[1].treasury, a.mint>>] =
                 wallet[<<bridge_config[1].treasury, a.mint>>] + fee
          /\ bridge_vault'[a.mint] = bridge_vault[a.mint] + net
          /\ FromBeBytes(SubSeq(last'.out.payload, 2, 9)) = net
          /\ bridge_transfers'[<<a.destination_chain_id, a.nonce>>].amount = net ]_vars


\* C19: the message of every successful initiate_cross_chain_transfer has exactly
\* 113 bytes: the payload id 100, the net amount on 8 bytes, the 32 bytes of the
\* mint, this chain's id on 2 bytes, the destination chain id on 2 bytes, the 32
\* bytes of the destination address, the 32 bytes of the commitment and the nonce on
\* 4 bytes, in this order, every integer with its most significant byte first.
C19_MessageLayout ==
    (last.op = "initiate_cross_chain_transfer" /\ last.err = "Ok") =>
        LET m == last.out.payload
            a == last.args
        IN
        /\ Len(m) = 113
        /\ \A i \in 1..Len(m) : m[i] \in 0..255
        /\ m[1] = 100
        /\ m[8] = (last.out.amount \div 256) % 256 /\ m[9] = last.out.amount % 256
        /\ \A i \in 10..40 : m[i] = 0
        /\ m[41] = PubkeyNumber(a.mint)
        /\ m[42] = CHAIN_ID_SOLANA \div 256 /\ m[43] = CHAIN_ID_SOLANA % 256
        /\ m[44] = a.destination_chain_id \div 256 /\ m[45] = a.destination_chain_id % 256
        /\ m[77] = a.destination_address % 256
        /\ m[109] = a.commitment % 256
        /\ m[110] = a.nonce \div (256 * 256 * 256)
        /\ m[111] = (a.nonce \div (256 * 256)) % 256
        /\ m[112] = (a.nonce \div 256) % 256
        /\ m[113] = a.nonce % 256
        /\ FromBeBytes(SubSeq(m, 2, 9)) = last.out.amount
        /\ FromBeBytes(SubSeq(m, 46, 77)) = a.destination_address
        /\ FromBeBytes(SubSeq(m, 78, 109)) = a.commitment

\* C19 witness: a message whose net amount, destination chain and nonce each need
\* two bytes
C19_Witness ==
    /\ last.op = "initiate_cross_chain_transfer" /\ last.err = "Ok"
    /\ bridge_config[1].fee_basis_points > 0
    /\ last.out.amount > 256 /\ last.out.amount < last.args.amount
    /\ last.args.destination_chain_id > 256
    /\ last.args.nonce > 256


\* C20: a BridgeTransfer record is only ever created by a successful
\* initiate_cross_chain_transfer, under the (destination chain, nonce) of that call
\* and with status Pending; no record disappears; the status of an existing record
\* either stays as it is or goes from Pending to Completed or to Failed, so a
\* Completed or Failed record never changes again.
C20_TransferStatus ==
    [][ /\ DOMAIN bridge_transfers \subseteq DOMAIN bridge_transfers'
        /\ \A k \in DOMAIN bridge_transfers :
             \/ bridge_transfers'[k].status = bridge_transfers[k].status
             \/ /\ bridge_transfers[k].status = "Pending"
                /\ bridge_transfers'[k].status \in {"Completed", "Failed"}
        /\ \A k \in DOMAIN bridge_transfers' \ DOMAIN bridge_transfers :
             /\ last'.op = "initiate_cross_chain_transfer"
             /\ last'.err = "Ok"
             /\ k = <<last'.args.destination_chain_id, last'.args.nonce>>
             /\ bridge_transfers'[k].status = "Pending" ]_vars

\* C20 witness: two transfers were recorded, the bridge was then paused and an
\* inbound message refused, and both records are still there
C20_Witness ==
    /\ Cardinality(DOMAIN bridge_transfers) = 2
    /\ \A k \in DOMAIN bridge_transfers :
         bridge_transfers[k].status \in {"Pending", "Completed", "Failed"}
    /\ last.op = "process_incoming_transfer"
    /\ last.err = "BridgePaused"


\* the accounts and balances of the program
\* ------------------------------------------------------------------ fee cast
\* a bridge whose token admits every amount, a sender who owns the largest amount,
\* and a pool whose second deposit overflows total_deposited

CastRegistry ==
    [RelayRegistry EXCEPT !.supported_chains[1].tokens[1].min_amount = 1,
                          !.supported_chains[1].tokens[1].max_amount = U64_MAX]

InitCast == DeployedBridge(U64_MAX, Some(CastRegistry))

\* fee rates an administrator can set: update_bridge_config takes any u16
CastRates == {155, 20000}

CastAmounts == {RelayLimits.min_amount, U64_MAX}

CastInitializePool ==
    InitializePool("admin", AtomicDenomination, MIN_TREE_DEPTH, FALSE, NativeMint)

CastSetFee ==
    \E fee \in CastRates : UpdateBridgeConfig("admin", Some(fee), None, None, None)

CastOutbound ==
    \E p \in DOMAIN trees, amount \in CastAmounts, nonce \in RelayNonces :
        InitiateCrossChainTransfer("user", "USDC", VaultAuthority, p, amount,
                                   Destination.chain, Destination.address, 1, nonce)

CastDeposit == \E p \in DOMAIN pools : Deposit(p, p, "user", 1)

CastWithdraw ==
    \E p \in DOMAIN pools, h \in NullifierHashes :
        WithdrawCall(p, "valid", trees[p].root, h, "user", 0, NoAccount, NoAccount)

NextCast ==
    \/ CastInitializePool
    \/ CastSetFee
    \/ CastOutbound
    \/ CastDeposit
    \/ CastWithdraw

SpecCast == InitCast /\ [][NextCast]_vars

\* ------------------------------------------------------------------ payout
\* withdrawals with and without a fee, through a relayer whose statistics account is
\* its own or that of another registered relayer

InitPayout == Deployed(Denomination)

PayoutInitializePool ==
    \E is_spl_token \in BOOLEAN :
        InitializePool("admin", Denomination, MIN_TREE_DEPTH, is_spl_token, "USDC")

PayoutSetRelayer ==
    \E authority \in {"relayer", "treasury"} : SetRelayer(authority, TRUE, 100)

PayoutDeposit == \E p \in DOMAIN pools : Deposit(p, p, "user", 1)

\* the relayer and relayer_stats accounts of a withdrawal
PayoutRelayers ==
    {<<NoAccount, NoAccount>>, <<"relayer", "relayer">>, <<"relayer", "treasury">>}

PayoutWithdraw ==
    \E p \in DOMAIN pools, h \in NullifierHashes, r \in PayoutRelayers :
        \E fee \in {0, MaxFee(pools[p])} :
            WithdrawCall(p, "valid", trees[p].root, h, "recipient", fee, r[1], r[2])

NextPayout ==
    \/ PayoutInitializePool
    \/ PayoutSetRelayer
    \/ PayoutDeposit
    \/ PayoutWithdraw

SpecPayout == InitPayout /\ [][NextPayout]_vars

\* ------------------------------------------------------------------ lookup
\* a registry filled by its administrator, and transfers to added chains, to a chain
\* never added, and to the chain id the unused slots of the registry hold

InitLookup == Deployed(Denomination)

LookupInitializePool ==
    InitializePool("admin", Denomination, MIN_TREE_DEPTH, FALSE, NativeMint)

LookupInitializeBridge == InitializeBridge("admin", "treasury", 0, 1)

LookupAddChain ==
    \E chain_id \in {Destination.chain, Destination.closed} :
        AddDestinationChain("admin", chain_id)

LookupAddToken ==
    AddSupportedToken("admin", Destination.chain, "USDC", 7,
                      RelayLimits.min_amount, RelayLimits.max_amount)

LookupChains ==
    {Destination.chain, Destination.closed, Destination.unknown,
     ChainConfigDefault.chain_id}

LookupOutbound ==
    \E p \in DOMAIN trees, chain_id \in LookupChains, nonce \in RelayNonces :
        InitiateCrossChainTransfer("user", "USDC", VaultAuthority, p,
                                   RelayLimits.min_amount, chain_id,
                                   Destination.address, 1, nonce)

NextLookup ==
    \/ LookupInitializePool
    \/ LookupInitializeBridge
    \/ LookupAddChain
    \/ LookupAddToken
    \/ LookupOutbound

SpecLookup == InitLookup /\ [][NextLookup]_vars

\* --------------------------------------------------------------- authority
\* configuration calls signed by the authority and by another key, and withdrawals
\* against the initial root and against the roots an update writes

InitAuthority == Deployed(Denomination)

Signers == {"admin", "user"}

\* roots an update may write
AuthorityRoots == {5}

AuthorityInitializePool ==
    \E is_spl_token \in BOOLEAN :
        InitializePool("admin", Denomination, MIN_TREE_DEPTH, is_spl_token, "USDC")

AuthorityInitializeBridge == InitializeBridge("admin", "treasury", 0, 1)

AuthorityUpdatePoolConfig ==
    \E p \in DOMAIN pools, signer \in Signers :
        UpdatePoolConfig(p, signer, Some(MAX_FEE_BP_LIMIT), None, None)

AuthorityUpdateTreeRoot ==
    \E p \in DOMAIN pools, signer \in Signers, new_root \in AuthorityRoots :
        UpdateTreeRoot(p, signer, new_root)

AuthorityUpdateBridgeConfig ==
    \E signer \in Signers : UpdateBridgeConfig(signer, None, None, Some(TRUE), None)

AuthorityRegisterEmitter ==
    \E signer \in Signers : RegisterExternalEmitter(signer, Emitter.chain, Emitter.address)

AuthorityDeposit == \E p \in DOMAIN pools : Deposit(p, p, "user", 1)

AuthorityWithdraw ==
    \E p \in DOMAIN pools, root \in {ZeroRoot} \cup AuthorityRoots :
        WithdrawCall(p, "valid", root, 1, "recipient", 0, NoAccount, NoAccount)

NextAuthority ==
    \/ AuthorityInitializePool
    \/ AuthorityInitializeBridge
    \/ AuthorityUpdatePoolConfig
    \/ AuthorityUpdateTreeRoot
    \/ AuthorityUpdateBridgeConfig
    \/ AuthorityRegisterEmitter
    \/ AuthorityDeposit
    \/ AuthorityWithdraw

SpecAuthority == InitAuthority /\ [][NextAuthority]_vars

\* ------------------------------------------------------------ bridge exit
\* a token pool fed by deposits, a bridge vault fed by outbound transfers, and
\* withdrawals of the same hashes through withdraw and complete_bridge_withdrawal

InitExit == DeployedBridge(2 * Denomination, Some(RelayRegistry))

ExitInitializePool == InitializePool("admin", Denomination, MIN_TREE_DEPTH, TRUE, "USDC")

ExitSetActive ==
    \E p \in DOMAIN pools, active \in BOOLEAN :
        UpdatePoolConfig(p, "admin", None, None, Some(active))

ExitDeposit == \E p \in DOMAIN pools : Deposit(p, p, "user", 1)

ExitOutbound ==
    \E p \in DOMAIN trees :
        InitiateCrossChainTransfer("user", "USDC", VaultAuthority, p,
                                   RelayLimits.max_amount, Destination.chain,
                                   Destination.address, 1, 258)

\* fees of a withdrawal: none, and one above the fee cap of the pool
ExitFees(p) == {0, MaxFee(pools[p]) + 1}

ExitWithdraw ==
    \E p \in DOMAIN pools, h \in NullifierHashes :
        \E fee \in ExitFees(p) :
            WithdrawCall(p, "valid", trees[p].root, h, "recipient", fee,
                         IF fee = 0 THEN NoAccount ELSE "relayer",
                         IF fee = 0 THEN NoAccount ELSE "relayer")

ExitCompleteBridgeWithdrawal ==
    \E p \in DOMAIN trees, h \in NullifierHashes :
        \E fee \in ExitFees(p), root \in {trees[p].root, BogusRoot} :
            CompleteBridgeWithdrawal(
                p, "USDC", ProofData("valid", <<root, h, "recipient", "relayer", fee>>),
                root, h, "recipient", "relayer", fee)

NextExit ==
    \/ ExitInitializePool
    \/ ExitSetActive
    \/ ExitDeposit
    \/ ExitOutbound
    \/ ExitWithdraw
    \/ ExitCompleteBridgeWithdrawal

SpecExit == InitExit /\ [][NextExit]_vars

\* ------------------------------------------------------------------ claims

ProgramState ==
    <<pools, trees, nullifiers, nullifier_set, relayers, vault, wallet, bridge_config,
      external_emitters, processed_vaas, bridge_transfers, bridge_vault,
      wormhole_sequence>>

WritingSteps ==
    {"write_pool", "write_tree", "max_fee", "min_withdrawal", "active",
     "transfer_to_vault", "transfer_fee", "post_message", "write_bridge_transfer",
     "add_leaf"}

\* C22 (as claimed): when initialize_pool, update_pool_config or
\* initiate_cross_chain_transfer raises a validation error (zero denomination, tree
\* depth out of range, fee cap above 500 bp, minimum above the denomination, amount
\* out of range), the call has not yet assigned any field or moved any funds.
C22_ValidateBeforeWrite ==
    ( /\ last.op \in {"initialize_pool", "update_pool_config",
                      "initiate_cross_chain_transfer"}
      /\ last.err \in {"InvalidDenomination", "InvalidTreeDepth", "FeeTooHigh",
                       "InvalidAmount"} ) =>
        \A i \in 1..Len(last.done) : last.done[i] \notin WritingSteps


\* C23 (as claimed): no fee or total wraps or truncates silently: a successful
\* initiate_cross_chain_transfer used a fee equal to floor(amount * feeBp / 10000),
\* and that fee is at most the amount; a successful deposit leaves total_deposited
\* and the leaf counters within 64 bits.
C23_NoSilentWrap ==
    /\ ( last.op = "initiate_cross_chain_transfer" /\ last.err = "Ok" ) =>
          LET amount == last.args.amount
              feeBp == bridge_config[1].fee_basis_points
              exact == (amount \div 10000) * feeBp + ((amount % 10000) * feeBp) \div 10000
          IN /\ amount - last.out.amount = exact
             /\ exact <= amount
    /\ ( last.op = "deposit" /\ last.err = "Ok" ) =>
          /\ pools[last.args.pool].total_deposited <= U64_MAX
          /\ pools[last.args.pool].next_index <= U64_MAX
          /\ trees[last.args.tree].num_leaves <= U64_MAX


\* C24: after any sequence of pool creations and configuration updates, every pool
\* has a denomination above zero, a fee cap of at most 500 basis points and a
\* minimum withdrawal of at most its denomination.
C24_PoolLimits ==
    \A p \in DOMAIN pools :
        /\ pools[p].denomination > 0
        /\ pools[p].max_fee_basis_points <= MAX_FEE_BP_LIMIT
        /\ pools[p].min_withdrawal_amount <= pools[p].denomination

\* a pool at both limits, just after an update above the fee limit was refused
C24_Witness ==
    /\ last.op = "update_pool_config"
    /\ last.err = "FeeTooHigh"
    /\ pools[last.args.pool].max_fee_basis_points = MAX_FEE_BP_LIMIT
    /\ pools[last.args.pool].min_withdrawal_amount = pools[last.args.pool].denomination


\* C25: every successful deposit takes exactly the denomination of the pool from the
\* depositor's balance of the pool's asset and adds exactly that to the pool's vault,
\* for native and for token pools; no other balance changes.
C25_DepositMovesDenomination ==
    [][ ( last'.op = "deposit" /\ last'.err = "Ok" ) =>
          LET p == last'.args.pool
              from == <<last'.args.user, p[2]>>
              d == pools[p].denomination
          IN /\ wallet' = [wallet EXCEPT ![from] = @ - d]
             /\ vault' = [vault EXCEPT ![p] = @ + d]
             /\ last'.out.amount = d
             /\ pools'[p].denomination = d ]_vars

\* a deposit into a token pool has succeeded, and one into a native pool before it
C25_Witness ==
    /\ last.op = "deposit"
    /\ last.err = "Ok"
    /\ pools[last.args.pool].is_spl_token
    /\ vault[last.args.pool] = pools[last.args.pool].denomination
    /\ \E q \in DOMAIN pools :
          ~pools[q].is_spl_token /\ vault[q] = pools[q].denomination


\* C26 (as claimed): a successful withdraw with fee f takes exactly the denomination
\* out of the vault; the recipient receives denomination - f; if f > 0 the relayer
\* receives f and the statistics of that relayer grow by denomination - f relayed
\* and f earned, and no other statistics change; if f = 0 nothing is paid to a
\* relayer and all statistics stay as they were.
C26_WithdrawPayout ==
    [][ ( last'.op = "withdraw" /\ last'.err = "Ok" ) =>
          LET a == last'.args
              p == a.pool
              d == pools[p].denomination
              f == a.fee
          IN /\ vault' = [vault EXCEPT ![p] = @ - d]
             /\ wallet' = [w \in DOMAIN wallet |->
                             wallet[w]
                             + (IF w = <<a.recipient, p[2]>> THEN d - f ELSE 0)
                             + (IF f > 0 /\ w = <<a.relayer, p[2]>> THEN f ELSE 0)]
             /\ IF f > 0
                THEN /\ a.relayer \in DOMAIN relayers
                     /\ relayers' = [relayers EXCEPT
                                       ![a.relayer].total_relayed = @ + (d - f),
                                       ![a.relayer].total_fees = @ + f]
                ELSE relayers' = relayers ]_vars


\* C27: spent nullifiers are kept per pool. A successful withdraw of hash h from pool
\* p records (p, h), which was not recorded before, and changes no other record; a
\* withdraw refused as already spent is refused only because (p, h) itself is
\* recorded, whatever is recorded for h in other pools; records are never removed.
C27_SpentPerPool ==
    [][ /\ \A k \in DOMAIN nullifiers :
              k \in DOMAIN nullifiers' /\ nullifiers'[k] = nullifiers[k]
        /\ last'.op = "withdraw" =>
             LET key == <<last'.args.pool, last'.args.nullifier_hash>> IN
             /\ last'.err = "Ok" =>
                   /\ key \notin DOMAIN nullifiers
                   /\ DOMAIN nullifiers' = DOMAIN nullifiers \cup {key}
                   /\ nullifiers'[key].is_spent
             /\ last'.err \in {"AccountAlreadyInUse", "NullifierAlreadySpent"} =>
                   /\ key \in DOMAIN nullifiers
                   /\ nullifiers[key].is_spent ]_vars

\* the same hash has been spent in two pools, the second time just now
C27_Witness ==
    /\ last.op = "withdraw"
    /\ last.err = "Ok"
    /\ \E q \in DOMAIN pools :
          /\ q # last.args.pool
          /\ <<q, last.args.nullifier_hash>> \in DOMAIN nullifiers
          /\ nullifiers[<<q, last.args.nullifier_hash>>].is_spent
          /\ nullifiers[<<last.args.pool, last.args.nullifier_hash>>].is_spent


\* C28 (as claimed): a transfer that reaches the registry lookup gets past it only
\* for a chain that was added and an asset that was added for that chain; for a
\* chain id never added, the id held by unused registry slots included, it fails
\* with ChainNotSupported; for an added chain and an asset never added for it, it
\* fails with TokenNotSupported.
C28_LookupErrors ==
    ( last.op = "initiate_cross_chain_transfer" /\ Did(last.done, "check_paused") ) =>
        LET chains == bridge_config[1].supported_chains
            chain_added == \E i \in 1..Len(chains) :
                               chains[i].chain_id = last.args.destination_chain_id
            asset_added == \E i \in 1..Len(chains) :
                               /\ chains[i].chain_id = last.args.destination_chain_id
                               /\ \E j \in 1..Len(chains[i].tokens) :
                                     chains[i].tokens[j].mint = last.args.mint
        IN /\ ~chain_added => last.err = "ChainNotSupported"
           /\ (chain_added /\ ~asset_added) => last.err = "TokenNotSupported"
           /\ Did(last.done, "find_token") => (chain_added /\ asset_added)


\* C29 (as claimed): register_external_emitter is an idempotent upsert: called by the
\* authority of the bridge, for a new pair or for a pair already registered, it
\* succeeds and leaves the record of the pair active.
C29_RegisterIdempotent ==
    ( /\ last.op = "register_external_emitter"
      /\ bridge_config # None
      /\ last.args.signer = bridge_config[1].authority ) =>
        LET key == <<last.args.chain_id, last.args.emitter_address>> IN
        /\ last.err = "Ok"
        /\ key \in DOMAIN external_emitters
        /\ external_emitters[key].is_active


\* C30: a pool is created at most once per denomination and asset: initialize_pool
\* for a denomination and asset that already have a pool fails and leaves every pool
\* and every tree as it was; a successful initialize_pool adds one pool of that
\* denomination and changes no other; no pool and no tree ever disappears, and no
\* pool changes its denomination.
C30_PoolCreatedOnce ==
    [][ /\ \A p \in DOMAIN pools :
              /\ p \in DOMAIN pools'
              /\ p \in DOMAIN trees'
              /\ pools'[p].denomination = pools[p].denomination
        /\ last'.op = "initialize_pool" =>
             LET key == PoolKey(last'.args.denomination, last'.args.is_spl_token,
                                last'.args.mint)
             IN /\ key \in DOMAIN pools =>
                      /\ last'.err # "Ok"
                      /\ pools' = pools
                      /\ trees' = trees
                /\ last'.err = "Ok" =>
                      /\ key \notin DOMAIN pools
                      /\ DOMAIN pools' = DOMAIN pools \cup {key}
                      /\ pools'[key].denomination = last'.args.denomination
                      /\ \A p \in DOMAIN pools :
                            pools'[p] = pools[p] /\ trees'[p] = trees[p] ]_vars

\* a second creation has just been refused for a pool that holds a deposit
C30_Witness ==
    /\ last.op = "initialize_pool"
    /\ last.err = "AccountAlreadyInUse"
    /\ LET key == PoolKey(last.args.denomination, last.args.is_spl_token, last.args.mint)
       IN /\ key \in DOMAIN pools
          /\ pools[key].total_deposited > 0
          /\ trees[key].num_leaves > 0


\* C31 (as claimed): pool creation on free accounts with a denomination above zero
\* succeeds for every tree depth from 10 to 32, and fails with the invalid-tree-depth
\* error, creating nothing, for a depth below 10 or above 32.
C31_DepthRange ==
    ( /\ last.op = "initialize_pool"
      /\ Did(last.done, "check_denomination") ) =>
        LET d == last.args.max_depth
            key == PoolKey(last.args.denomination, last.args.is_spl_token, last.args.mint)
        IN /\ (10 <= d /\ d <= 32) =>
                 /\ last.err = "Ok"
                 /\ key \in DOMAIN trees
                 /\ trees[key].max_depth = d
           /\ (d < 10 \/ d > 32) => last.err = "InvalidTreeDepth"


\* C32: a deposit into a pool that is not active fails with PoolInactive; a deposit
\* into an active pool by a depositor who owns less than the denomination of the
\* pool's asset fails with InsufficientFunds; in both cases no balance, pool or tree
\* changes, so no leaf index is consumed; a deposit that succeeds, also after a
\* refusal or a reactivation, gets the index next_index held before the call.
C32_DepositRefusals ==
    [][ ( last'.op = "deposit" /\ Did(last'.done, "constraint_tree") ) =>
          LET p == last'.args.pool
              from == <<last'.args.user, p[2]>>
          IN /\ ~pools[p].is_active => last'.err = "PoolInactive"
             /\ (pools[p].is_active /\ wallet[from] < pools[p].denomination) =>
                   last'.err = "InsufficientFunds"
             /\ last'.err \in {"PoolInactive", "InsufficientFunds"} =>
                   /\ wallet' = wallet
                   /\ vault' = vault
                   /\ pools' = pools
                   /\ trees' = trees
             /\ last'.err = "Ok" =>
                   /\ last'.out.leaf_index = pools[p].next_index
                   /\ pools'[p].next_index = pools[p].next_index + 1 ]_vars

\* a deposit has been refused by an inactive pool that already holds a leaf, the
\* depositor owning enough for another deposit
C32_Witness ==
    /\ last.op = "deposit"
    /\ last.err = "PoolInactive"
    /\ pools[last.args.pool].next_index >= 1
    /\ wallet[<<last.args.user, last.args.pool[2]>>] >= pools[last.args.pool].denomination


\* C33 (as claimed): in every state the total_withdrawn of a pool is its denomination
\* times the number of successful withdrawals from it (each of which left one spent
\* nullifier record of the pool), and is at most its total_deposited.
C33_TotalWithdrawn ==
    \A p \in DOMAIN pools :
        LET withdrawals == Cardinality({k \in DOMAIN nullifiers :
                                           k[1] = p /\ nullifiers[k].is_spent})
        IN /\ pools[p].total_withdrawn = pools[p].denomination * withdrawals
           /\ pools[p].total_withdrawn <= pools[p].total_deposited


\* the fields of a pool that configuration calls set
PoolConfiguration(pool) ==
    <<pool.authority, pool.max_fee_basis_points, pool.min_withdrawal_amount,
      pool.is_active, pool.merkle_root>>

C35_AppendUpdatesRoot ==
    [][ \A t \in DOMAIN trees :
           trees'[t].num_leaves > trees[t].num_leaves =>
              trees'[t].root # trees[t].root ]_vars


\* C36 (as claimed): complete_bridge_withdrawal succeeds only for a request withdraw
\* would accept: the pool of the tree is active, the root is the root of the tree,
\* the fee is within the fee cap of the pool, the net amount is at least the minimum
\* withdrawal, and the hash has no nullifier record in that pool; and it records the
\* hash in the pool's nullifier records, where withdraw looks for it.
C36_SameRulesAsWithdraw ==
    [][ ( last'.op = "complete_bridge_withdrawal" /\ last'.err = "Ok" ) =>
          LET a == last'.args
              p == trees[a.merkle_tree].pool
              pool == pools[p]
              key == <<p, a.nullifier_hash>>
          IN /\ pool.is_active
             /\ a.root = trees[a.merkle_tree].root
             /\ a.fee <= (pool.denomination * pool.max_fee_basis_points) \div 10000
             /\ pool.denomination - a.fee >= pool.min_withdrawal_amount
             /\ key \notin DOMAIN nullifiers
             /\ key \in DOMAIN nullifiers'
             /\ nullifiers'[key].is_spent ]_vars


\* C37: nullifier records are keyed by pool and hash, so there is at most one per
\* pair; every record is spent and carries the pool and the hash of its key; the
\* records change only in a successful withdraw, which adds the record of its own
\* pair; a withdraw that fails leaves no record, and a withdraw of a pair without a
\* record is never refused as already spent.
C37_NullifierRecords ==
    [][ /\ \A k \in DOMAIN nullifiers' :
              /\ nullifiers'[k].is_spent
              /\ nullifiers'[k].pool = k[1]
              /\ nullifiers'[k].nullifier_hash = k[2]
        /\ nullifiers' # nullifiers =>
              /\ last'.op = "withdraw"
              /\ last'.err = "Ok"
              /\ DOMAIN nullifiers' =
                    DOMAIN nullifiers \cup {<<last'.args.pool, last'.args.nullifier_hash>>}
        /\ ( /\ last'.op = "withdraw"
             /\ <<last'.args.pool, last'.args.nullifier_hash>> \notin DOMAIN nullifiers ) =>
               last'.err \notin {"AccountAlreadyInUse", "NullifierAlreadySpent"} ]_vars

\* a withdraw has failed at the transfer, after it had created and marked the
\* nullifier account, and no record of its pair exists
C37_Witness ==
    /\ last.op = "withdraw"
    /\ last.err = "TransferFailed"
    /\ Did(last.done, "mark_spent")
    /\ <<last.args.pool, last.args.nullifier_hash>> \notin DOMAIN nullifiers


\* ------------------------------ SpecWire: a posted message is delivered inbound
\* the emitter of a deployment of the program on Solana
WireEmitter == [chain |-> CHAIN_ID_SOLANA, address |-> 6]

\* the bridge configuration after initialize_bridge and the registry updates of an
\* administrator: USDC is enabled for transfers to Solana and to another chain
WireRegistry ==
    [ authority |-> "admin", treasury |-> "treasury", fee_basis_points |-> 0,
      paused |-> FALSE, chain_count |-> 2,
      supported_chains |->
        << [chain_id |-> CHAIN_ID_SOLANA, token_count |-> 1,
            tokens |-> << [mint |-> "USDC", dest_token_id |-> 7,
                           min_amount |-> RelayLimits.min_amount,
                           max_amount |-> RelayLimits.max_amount, enabled |-> TRUE] >>],
           [chain_id |-> Destination.chain, token_count |-> 1,
            tokens |-> << [mint |-> "USDC", dest_token_id |-> 7,
                           min_amount |-> RelayLimits.min_amount,
                           max_amount |-> RelayLimits.max_amount, enabled |-> TRUE] >>] >>,
      wormhole_finality |-> 1 ]

\* the sender can pay two transfers of the smallest amount
InitWire == DeployedBridge(2 * RelayLimits.min_amount, Some(WireRegistry))

\* commitments of the transfers: one byte long and two bytes long
WireCommitments == {1, 258}

WireInitializePool ==
    InitializePool("admin", Denomination, MIN_TREE_DEPTH, FALSE, NativeMint)

WireSetFee ==
    \E fee \in RelayFees : UpdateBridgeConfig("admin", Some(fee), None, None, None)

WireRegisterEmitter ==
    RegisterExternalEmitter("admin", WireEmitter.chain, WireEmitter.address)

WireOutbound ==
    \E p \in DOMAIN trees, chain \in {CHAIN_ID_SOLANA, Destination.chain} :
        \E commitment \in WireCommitments, nonce \in RelayNonces :
            InitiateCrossChainTransfer("user", "USDC", VaultAuthority, p,
                                       RelayLimits.min_amount, chain, Destination.address,
                                       commitment, nonce)

\* the message posted by the last call is delivered: the guardians name the
\* program's emitter on Solana as its origin
WireDeliver ==
    /\ last.op = "initiate_cross_chain_transfer"
    /\ last.err = "Ok"
    /\ \E p \in DOMAIN trees, vaa_hash \in 1..NumVaas :
           ProcessIncomingTransfer([emitter_chain |-> WireEmitter.chain,
                                    emitter_address |-> WireEmitter.address,
                                    payload |-> last.out.payload],
                                   vaa_hash, <<WireEmitter.chain, WireEmitter.address>>, p)

NextWire ==
    \/ WireInitializePool
    \/ WireSetFee
    \/ WireRegisterEmitter
    \/ WireOutbound
    \/ WireDeliver

SpecWire == InitWire /\ [][NextWire]_vars

\* C38: the payload built by a successful initiate_cross_chain_transfer to Solana,
\* delivered by a registered active emitter of the payload's source chain under a
\* digest not processed before, passes the length check and the payload id check
\* of process_incoming_transfer, and bytes 77..109 decode to the commitment of the
\* transfer.
C38_WireFormatAgrees ==
    [][ ( /\ last.op = "initiate_cross_chain_transfer"
          /\ last.err = "Ok"
          /\ last.args.destination_chain_id = CHAIN_ID_SOLANA
          /\ last'.op = "process_incoming_transfer"
          /\ last'.args.vaa.payload = last.out.payload
          /\ last'.args.vaa.emitter_chain = FromBeBytes(Slice(last.out.payload, 41, 43))
          /\ Did(last'.done, "check_emitter_active") ) =>
        ( /\ Did(last'.done, "check_length")
          /\ Did(last'.done, "check_payload_id")
          /\ FromBeBytes(Slice(last'.args.vaa.payload, 77, 109)) = last.args.commitment ) ]_vars


\* C39: withdraw validates against the root the authority wrote. The pool's
\* merkle_root field is written by update_tree_root alone, so a value other than
\* the initial one is the root r of the last successful update; from then until
\* the next update a withdraw on that pool that reaches the root check passes it
\* with root = r and fails with InvalidMerkleRoot with any other root, the root
\* that was current before the update among them.
C39_UpdatedRootIsValidated ==
    \A p \in DOMAIN pools :
        ( /\ pools[p].merkle_root # ZeroRoot
          /\ last.op = "withdraw"
          /\ last.args.pool = p
          /\ Did(last.done, "check_active") ) =>
        /\ last.args.root = pools[p].merkle_root => Did(last.done, "check_root")
        /\ last.args.root # pools[p].merkle_root => last.err = "InvalidMerkleRoot"


====
